---- MODULE Spec2Model ----
(***************************************************************************)
(* Model of the dynamodbattribute codec: the Encoder (Go value ->          *)
(* AttributeValue) and the Decoder (AttributeValue -> Go value).           *)
(*                                                                         *)
(* Representation.                                                         *)
(*   Text        a sequence of one-character strings, <<"1","2","3">>.     *)
(*   Opt         a Go pointer/nilable field: <<>> is nil, <<x>> is set.    *)
(*   integers    sign and decimal magnitude [neg, mag], mag a sequence of  *)
(*               digits without leading zeros (<<0>> for zero), so that    *)
(*               64-bit values keep their width.                           *)
(*   float64     [neg, ip, fp]: integer and fraction digits of the decimal *)
(*               value (binary rounding is not modelled; values are the    *)
(*               short decimals that strconv round-trips exactly).         *)
(*   reflect.Type   a record with field k (the Kind) and its parameters.   *)
(*   reflect.Value  the pair of a Type and a value record, and whether the *)
(*               value is settable where the code asks CanSet.             *)
(* int and uint are 64 bits wide (a 64-bit build).                         *)
(***************************************************************************)
EXTENDS Integers, Sequences, FiniteSets, TLC

(***************************************************************************)
(* Bounds of the model.                                                    *)
(***************************************************************************)
MaxLen == 2

(***************************************************************************)
(* Text and decimal helpers (strconv).                                     *)
(***************************************************************************)
Nil == <<>>

Some(x) == <<x>>

IsDigit(c) == c \in {"0", "1", "2", "3", "4", "5", "6", "7", "8", "9"}

DigitVal(c) ==
  CASE c = "0" -> 0 [] c = "1" -> 1 [] c = "2" -> 2 [] c = "3" -> 3
    [] c = "4" -> 4 [] c = "5" -> 5 [] c = "6" -> 6 [] c = "7" -> 7
    [] c = "8" -> 8 [] OTHER -> 9

DigitChar(d) ==
  CASE d = 0 -> "0" [] d = 1 -> "1" [] d = 2 -> "2" [] d = 3 -> "3"
    [] d = 4 -> "4" [] d = 5 -> "5" [] d = 6 -> "6" [] d = 7 -> "7"
    [] d = 8 -> "8" [] OTHER -> "9"

AllDigits(s) == \A i \in 1..Len(s) : IsDigit(s[i])

DigitsOf(s) == [i \in 1..Len(s) |-> DigitVal(s[i])]

CharsOf(m) == [i \in 1..Len(m) |-> DigitChar(m[i])]

RECURSIVE StripLeadingZeros(_)
StripLeadingZeros(m) ==
  IF Len(m) > 1 /\ m[1] = 0 THEN StripLeadingZeros(Tail(m)) ELSE m

RECURSIVE StripTrailingZeros(_)
StripTrailingZeros(m) ==
  IF Len(m) > 0 /\ m[Len(m)] = 0
    THEN StripTrailingZeros(SubSeq(m, 1, Len(m) - 1))
    ELSE m

\* the magnitude of a non-empty digit text
Mag(s) == StripLeadingZeros(DigitsOf(s))

RECURSIVE LexLess(_, _)
LexLess(a, b) ==
  IF Len(a) = 0 THEN FALSE
  ELSE IF a[1] # b[1] THEN a[1] < b[1]
  ELSE LexLess(Tail(a), Tail(b))

\* a < b for canonical magnitudes
MagLess(a, b) ==
  IF Len(a) # Len(b) THEN Len(a) < Len(b) ELSE LexLess(a, b)

MagLeq(a, b) == a = b \/ MagLess(a, b)

\* 2^63, 2^64 - 1, 2^7, 2^8 - 1 as magnitudes
Pow63 == <<9, 2, 2, 3, 3, 7, 2, 0, 3, 6, 8, 5, 4, 7, 7, 5, 8, 0, 8>>

MaxUint64 == <<1, 8, 4, 4, 6, 7, 4, 4, 0, 7, 3, 7, 0, 9, 5, 5, 1, 6, 1, 5>>

Pow7 == <<1, 2, 8>>

MaxUint8 == <<2, 5, 5>>

Zero == <<0>>

\* strconv.ParseUint(s, 10, 64)
ParseUint(s) ==
  IF Len(s) = 0 \/ ~AllDigits(s) THEN [err |-> "syntax", neg |-> FALSE, mag |-> Zero]
  ELSE IF MagLess(MaxUint64, Mag(s)) THEN [err |-> "range", neg |-> FALSE, mag |-> MaxUint64]
  ELSE [err |-> "nil", neg |-> FALSE, mag |-> Mag(s)]

\* strconv.ParseInt(s, 10, 64)
ParseInt(s) ==
  IF Len(s) = 0 THEN [err |-> "syntax", neg |-> FALSE, mag |-> Zero]
  ELSE
    LET neg  == s[1] = "-"
        rest == IF s[1] \in {"+", "-"} THEN Tail(s) ELSE s
        un   == ParseUint(rest)
    IN  IF un.err = "syntax" THEN [err |-> "syntax", neg |-> FALSE, mag |-> Zero]
        ELSE IF un.err = "range" THEN [err |-> "range", neg |-> neg, mag |-> Pow63]
        ELSE IF ~neg /\ MagLeq(Pow63, un.mag) THEN [err |-> "range", neg |-> FALSE, mag |-> Pow63]
        ELSE IF neg /\ MagLess(Pow63, un.mag) THEN [err |-> "range", neg |-> TRUE, mag |-> Pow63]
        ELSE [err |-> "nil", neg |-> neg /\ un.mag # Zero, mag |-> un.mag]

\* index of the first "." of s, or 0
RECURSIVE DotAt(_, _)
DotAt(s, i) ==
  IF i > Len(s) THEN 0 ELSE IF s[i] = "." THEN i ELSE DotAt(s, i + 1)

\* strconv.ParseFloat(s, 64) on sign, digits and one optional point; the
\* exponent, hexadecimal, infinity and NaN forms are outside the alphabet
ParseFloat(s) ==
  LET signed == Len(s) > 0 /\ s[1] \in {"+", "-"}
      neg    == Len(s) > 0 /\ s[1] = "-"
      body   == IF signed THEN Tail(s) ELSE s
      dot    == DotAt(body, 1)
      ipart  == IF dot = 0 THEN body ELSE SubSeq(body, 1, dot - 1)
      fpart  == IF dot = 0 THEN <<>> ELSE SubSeq(body, dot + 1, Len(body))
      bad    == [err |-> "syntax", neg |-> FALSE, ip |-> Zero, fp |-> <<>>]
  IN  IF Len(ipart) + Len(fpart) = 0 THEN bad
      ELSE IF ~AllDigits(ipart) \/ ~AllDigits(fpart) THEN bad
      ELSE [err |-> "nil", neg |-> neg,
            ip |-> IF Len(ipart) = 0 THEN Zero ELSE Mag(ipart),
            fp |-> StripTrailingZeros(DigitsOf(fpart))]

\* a formatting that loses the sign
encodeInt_NoSign(n) == CharsOf(n.mag)

\* encodeInt: strconv.FormatInt(i, 10)
encodeInt(n) == IF n.neg THEN <<"-">> \o CharsOf(n.mag) ELSE CharsOf(n.mag)

\* encodeUint: strconv.FormatUint(u, 10)
encodeUint(n) == CharsOf(n.mag)

\* encodeFloat: strconv.FormatFloat(f, 'f', -1, 64)
encodeFloat(f) ==
  (IF f.neg THEN <<"-">> ELSE <<>>) \o CharsOf(f.ip)
    \o (IF Len(f.fp) = 0 THEN <<>> ELSE <<".">> \o CharsOf(f.fp))

(***************************************************************************)
(* Types (reflect.Type), values and the AttributeValue.                    *)
(***************************************************************************)
IntKinds == {"int8", "int"}

UintKinds == {"uint8", "uint"}

FloatKinds == {"float64"}

NumKinds == IntKinds \cup UintKinds \cup FloatKinds

\* the kinds encode gives up on: reflect.Chan, reflect.Func, reflect.UnsafePointer
SkippedKinds == {"func"}

Scalar(k) == [k |-> k]

PtrTo(t) == [k |-> "ptr", elem |-> t]

SliceOf(t) == [k |-> "slice", elem |-> t]

ArrayOf(n, t) == [k |-> "array", len |-> n, elem |-> t]

MapOf(kt, t) == [k |-> "map", key |-> kt, elem |-> t]

\* a struct type with its resolved fields; hook: the pointer to the type
\* implements Marshaler and Unmarshaler
StructOf(fs, hook) == [k |-> "struct", fields |-> fs, hook |-> hook]

Iface == [k |-> "interface"]

byteSliceType == SliceOf(Scalar("uint8"))

byteSliceSlicetype == SliceOf(byteSliceType)

stringInterfaceMapType == MapOf(Scalar("string"), Iface)

\* the tag of a field (the options the tag parser sets)
tag(oe, oee, as, bs, ns, ss) ==
  [OmitEmpty |-> oe, OmitEmptyElem |-> oee, AsString |-> as,
   AsBinSet |-> bs, AsNumSet |-> ns, AsStrSet |-> ss]

NoTag == tag(FALSE, FALSE, FALSE, FALSE, FALSE, FALSE)

Field(name, tg, t) == [Name |-> name, tag |-> tg, typ |-> t]

\* value constructors
VBool(b) == [k |-> "bool", b |-> b]

VStr(s) == [k |-> "string", s |-> s]

VInt(k, neg, mag) == [k |-> k, neg |-> neg, mag |-> mag]

VFloat(neg, ip, fp) == [k |-> "float64", neg |-> neg, ip |-> ip, fp |-> fp]

VNilPtr == [k |-> "ptr", nil |-> TRUE, elem |-> <<>>]

VPtr(x) == [k |-> "ptr", nil |-> FALSE, elem |-> <<x>>]

\* a slice: its backing array arr (Cap = Len(arr)) and its length
VNilSlice == [k |-> "slice", nil |-> TRUE, len |-> 0, arr |-> <<>>]

VSlice(xs) == [k |-> "slice", nil |-> FALSE, len |-> Len(xs), arr |-> xs]

VArray(xs) == [k |-> "array", arr |-> xs]

VNilMap == [k |-> "map", nil |-> TRUE, m |-> <<>>]

VMap(m) == [k |-> "map", nil |-> FALSE, m |-> m]

\* a struct value; calls: the wire values its Unmarshaler hook was given
VStruct(fv) == [k |-> "struct", fv |-> fv, calls |-> <<>>]

VNilIface == [k |-> "interface", nil |-> TRUE, dyn |-> <<>>]

VIface(t, x) == [k |-> "interface", nil |-> FALSE, dyn |-> <<[t |-> t, x |-> x]>>]

VFunc == [k |-> "func"]

VComplex == [k |-> "complex128"]

SliceElems(x) == SubSeq(x.arr, 1, x.len)

\* reflect.Value: type, value and addressability
RV(t, x, addr) == [t |-> t, x |-> x, addr |-> addr]

Invalid == RV([k |-> "invalid"], [k |-> "invalid"], FALSE)

\* dynamodb.AttributeValue{}
EmptyAV ==
  [B |-> Nil, BOOL |-> Nil, BS |-> Nil, L |-> Nil, M |-> Nil,
   N |-> Nil, NS |-> Nil, S |-> Nil, SS |-> Nil, NULL |-> Nil]

EmptyMap == [x \in {} |-> Nil]

MapPut(m, key, val) ==
  [x \in (DOMAIN m) \cup {key} |-> IF x = key THEN val ELSE m[x]]

\* a byte as a number 0..255 and as a uint8 value
RECURSIVE MagVal(_)
MagVal(m) ==
  IF Len(m) = 0 THEN 0 ELSE 10 * MagVal(SubSeq(m, 1, Len(m) - 1)) + m[Len(m)]

ByteOf(x) == MagVal(x.mag)

MagOfByte(b) ==
  StripLeadingZeros(<<b \div 100, (b \div 10) % 10, b % 10>>)

VByte(b) == VInt("uint8", FALSE, MagOfByte(b))

(***************************************************************************)
(* The Encoder.  Every operator returns [err, av]: the error and the       *)
(* AttributeValue the code has written into its av argument.               *)
(***************************************************************************)
\* encodeNull
encodeNull == [EmptyAV EXCEPT !.NULL = Some(TRUE)]

Ok(av) == [err |-> "nil", av |-> av]

Fail(e) == [err |-> e, av |-> EmptyAV]

\* the fields of a struct type (field resolution happens when the type is
\* described: a field carries its wire name and its parsed tag)
unionStructFields(t, opts) == t.fields

RECURSIVE valueElem(_)
valueElem(v) ==
  IF v.t.k = "ptr"
    THEN IF v.x.nil THEN Invalid
         ELSE valueElem(RV(v.t.elem, v.x.elem[1], TRUE))
  ELSE IF v.t.k = "interface"
    THEN IF v.x.nil THEN Invalid
         ELSE valueElem(RV(v.x.dyn[1].t, v.x.dyn[1].x, FALSE))
  ELSE v

IsZeroNum(x) ==
  IF x.k \in FloatKinds THEN x.ip = Zero /\ Len(x.fp) = 0 ELSE x.mag = Zero

emptyValue(v) ==
  CASE v.t.k \in {"array", "map"} ->
         IF v.t.k = "array" THEN Len(v.x.arr) = 0 ELSE DOMAIN v.x.m = {}
    [] v.t.k = "slice" -> v.x.len = 0
    [] v.t.k = "string" -> Len(v.x.s) = 0
    [] v.t.k = "bool" -> ~v.x.b
    [] v.t.k \in NumKinds -> IsZeroNum(v.x)
    [] v.t.k \in {"interface", "ptr"} -> v.x.nil
    [] OTHER -> FALSE

\* what the Marshaler hook of a hooked type writes
HookText == <<"h">>

\* tryMarshaler: the hook is on the pointer, so it is found when the value
\* is addressable
tryMarshaler(v) ==
  IF v.t.k = "struct" /\ v.t.hook /\ v.addr
    THEN [used |-> TRUE, err |-> "nil", av |-> [EmptyAV EXCEPT !.S = Some(HookText)]]
    ELSE [used |-> FALSE, err |-> "nil", av |-> EmptyAV]

\* what the caller of tryMarshaler returns when the hook was used
Handled(m) == [err |-> m.err, av |-> m.av]

\* a keepOrOmitEmpty that keeps the wire nulls
keepOrOmitEmpty_KeepNull(omitEmpty, av, err) ==
  IF err # "nil"
    THEN IF err = "unsupportedMarshalTypeError"
           THEN [skip |-> TRUE, err |-> "nil"]
           ELSE [skip |-> FALSE, err |-> err]
  ELSE [skip |-> FALSE, err |-> "nil"]

\* keepOrOmitEmpty
keepOrOmitEmpty(omitEmpty, av, err) ==
  IF err # "nil"
    THEN IF err = "unsupportedMarshalTypeError"
           THEN [skip |-> TRUE, err |-> "nil"]
           ELSE [skip |-> FALSE, err |-> err]
  ELSE IF av.NULL # Nil /\ omitEmpty THEN [skip |-> TRUE, err |-> "nil"]
  ELSE [skip |-> FALSE, err |-> "nil"]

encodeNumber(e, v) ==
  IF tryMarshaler(v).used THEN Handled(tryMarshaler(v))
  ELSE IF v.t.k \in IntKinds THEN Ok([EmptyAV EXCEPT !.N = Some(encodeInt(v.x))])
  ELSE IF v.t.k \in UintKinds THEN Ok([EmptyAV EXCEPT !.N = Some(encodeUint(v.x))])
  ELSE IF v.t.k \in FloatKinds THEN Ok([EmptyAV EXCEPT !.N = Some(encodeFloat(v.x))])
  ELSE Fail("unsupportedMarshalTypeError")

encodeString(e, v) ==
  IF tryMarshaler(v).used THEN Handled(tryMarshaler(v))
  ELSE IF v.t.k = "string"
    THEN IF Len(v.x.s) = 0 /\ e.NullEmptyString
           THEN Ok(encodeNull)
           ELSE Ok([EmptyAV EXCEPT !.S = Some(v.x.s)])
  ELSE Fail("unsupportedMarshalTypeError")

\* an encodeScalar that ignores the string option
encodeScalar_NoRelabel(e, v, fieldTag) ==
  IF v.t.k = "bool" THEN Ok([EmptyAV EXCEPT !.BOOL = Some(v.x.b)])
  ELSE IF v.t.k = "string" THEN encodeString(e, v)
  ELSE encodeNumber(e, v)

\* an encodeScalar whose string option copies the number text into S and
\* leaves it in N
encodeScalar_KeepN(e, v, fieldTag) ==
  IF v.t.k = "bool" THEN Ok([EmptyAV EXCEPT !.BOOL = Some(v.x.b)])
  ELSE IF v.t.k = "string" THEN encodeString(e, v)
  ELSE
    LET relabel(r) ==
          IF r.err # "nil" THEN r
          ELSE IF fieldTag.AsString /\ r.av.NULL = Nil /\ r.av.N # Nil
            THEN Ok([r.av EXCEPT !.S = r.av.N])
            ELSE r
    IN  relabel(encodeNumber(e, v))

\* Encoder.encodeScalar
encodeScalar(e, v, fieldTag) ==
  IF v.t.k = "bool" THEN Ok([EmptyAV EXCEPT !.BOOL = Some(v.x.b)])
  ELSE IF v.t.k = "string" THEN encodeString(e, v)
  ELSE
    LET relabel(r) ==
          IF r.err # "nil" THEN r
          ELSE IF fieldTag.AsString /\ r.av.NULL = Nil /\ r.av.N # Nil
            THEN Ok([r.av EXCEPT !.S = r.av.N, !.N = Nil])
            ELSE r
    IN  relabel(encodeNumber(e, v))

\* the wire set encodeSlice builds for a sequence that is not a []byte
SetKindOf(v, fieldTag) ==
  IF fieldTag.AsBinSet \/ v.t = byteSliceSlicetype THEN "BS"
  ELSE IF fieldTag.AsNumSet THEN "NS"
  ELSE IF fieldTag.AsStrSet THEN "SS"
  ELSE "L"

\* an elemFn that puts the new element first
elemFn_Prepend(kind, items, elem) ==
  CASE kind = "BS" ->
         IF elem.B = Nil THEN [err |-> "InvalidMarshalError", items |-> items]
         ELSE [err |-> "nil", items |-> <<elem.B[1]>> \o items]
    [] kind = "NS" ->
         IF elem.N = Nil THEN [err |-> "InvalidMarshalError", items |-> items]
         ELSE [err |-> "nil", items |-> <<elem.N[1]>> \o items]
    [] kind = "SS" ->
         IF elem.S = Nil THEN [err |-> "InvalidMarshalError", items |-> items]
         ELSE [err |-> "nil", items |-> <<elem.S[1]>> \o items]
    [] OTHER -> [err |-> "nil", items |-> <<Some(elem)>> \o items]

\* elemFn of encodeSlice: appends elem to the items collected so far
elemFn(kind, items, elem) ==
  CASE kind = "BS" ->
         IF elem.B = Nil THEN [err |-> "InvalidMarshalError", items |-> items]
         ELSE [err |-> "nil", items |-> Append(items, elem.B[1])]
    [] kind = "NS" ->
         IF elem.N = Nil THEN [err |-> "InvalidMarshalError", items |-> items]
         ELSE [err |-> "nil", items |-> Append(items, elem.N[1])]
    [] kind = "SS" ->
         IF elem.S = Nil THEN [err |-> "InvalidMarshalError", items |-> items]
         ELSE [err |-> "nil", items |-> Append(items, elem.S[1])]
    [] OTHER -> [err |-> "nil", items |-> Append(items, Some(elem))]

SeqLen(v) == IF v.t.k = "slice" THEN v.x.len ELSE Len(v.x.arr)

SeqIndex(v, i) ==
  RV(v.t.elem, v.x.arr[i], IF v.t.k = "slice" THEN TRUE ELSE v.addr)

\* fmt.Sprint(key.Interface()) of a map key
KeyName(kt, key) == IF kt.k = "string" THEN key.s ELSE encodeInt(key)

RECURSIVE encode(_, _, _)
RECURSIVE encodeStructFrom(_, _, _, _)
RECURSIVE encodeMapFrom(_, _, _, _, _)
RECURSIVE encodeListFrom(_, _, _, _, _, _)

encodeStruct(e, v) ==
  encodeStructFrom(e, v, 1, EmptyMap)

encodeStructFrom(e, v, i, m) ==
  LET fields == unionStructFields(v.t, e)
  IN  IF i > Len(fields)
        THEN IF DOMAIN m = {} THEN Ok(encodeNull)
             ELSE Ok([EmptyAV EXCEPT !.M = Some(m)])
      ELSE
        LET f == fields[i]
        IN  IF Len(f.Name) = 0 THEN Fail("InvalidMarshalError")
            ELSE
              LET put(r, s) ==
                    IF s.err # "nil" THEN Fail(s.err)
                    ELSE IF s.skip THEN encodeStructFrom(e, v, i + 1, m)
                    ELSE encodeStructFrom(e, v, i + 1, MapPut(m, f.Name, Some(r.av)))
                  kept(r) == put(r, keepOrOmitEmpty(f.tag.OmitEmpty, r.av, r.err))
              IN  kept(encode(e, RV(f.typ, v.x.fv[i], v.addr), f.tag))

\* the loop of encodeMap over the keys still to visit; the result does not
\* depend on the order but for which of several errors is returned, and
\* all of them are InvalidMarshalError
encodeMapFrom(e, v, fieldTag, keys, m) ==
  IF keys = {}
    THEN IF DOMAIN m = {} THEN Ok(encodeNull)
         ELSE Ok([EmptyAV EXCEPT !.M = Some(m)])
  ELSE
    LET key     == CHOOSE x \in keys : TRUE
        keyName == KeyName(v.t.key, key)
    IN  IF Len(keyName) = 0 THEN Fail("InvalidMarshalError")
        ELSE
          LET put(r, s) ==
                IF s.err # "nil" THEN Fail(s.err)
                ELSE IF s.skip THEN encodeMapFrom(e, v, fieldTag, keys \ {key}, m)
                ELSE encodeMapFrom(e, v, fieldTag, keys \ {key},
                                   MapPut(m, keyName, Some(r.av)))
              kept(r) == put(r, keepOrOmitEmpty(fieldTag.OmitEmptyElem, r.av, r.err))
          IN  kept(encode(e, RV(v.t.elem, v.x.m[key], FALSE), NoTag))

encodeMap(e, v, fieldTag) ==
  encodeMapFrom(e, v, fieldTag, DOMAIN v.x.m, EmptyMap)

\* encodeList: [err, count, items]
encodeListFrom(e, v, fieldTag, kind, i, items) ==
  IF i > SeqLen(v) THEN [err |-> "nil", count |-> Len(items), items |-> items]
  ELSE
    LET add(a) ==
          IF a.err # "nil" THEN [err |-> a.err, count |-> 0, items |-> <<>>]
          ELSE encodeListFrom(e, v, fieldTag, kind, i + 1, a.items)
        put(r, s) ==
          IF s.err # "nil" THEN [err |-> s.err, count |-> 0, items |-> <<>>]
          ELSE IF s.skip THEN encodeListFrom(e, v, fieldTag, kind, i + 1, items)
          ELSE add(elemFn(kind, items, r.av))
        kept(r) == put(r, keepOrOmitEmpty(fieldTag.OmitEmptyElem, r.av, r.err))
    IN  kept(encode(e, SeqIndex(v, i),
                    [NoTag EXCEPT !.OmitEmpty = fieldTag.OmitEmptyElem]))

encodeList(e, v, fieldTag, kind) ==
  encodeListFrom(e, v, fieldTag, kind, 1, <<>>)

\* an encodeSlice that writes an empty []byte as an empty B
encodeSlice_EmptyBinary(e, v, fieldTag) ==
  IF v.t = byteSliceType
    THEN Ok([EmptyAV EXCEPT !.B = Some([i \in 1..v.x.len |-> ByteOf(v.x.arr[i])])])
  ELSE
    LET built(kind, r) ==
          IF r.err # "nil" THEN Fail(r.err)
          ELSE IF r.count = 0 THEN Ok(encodeNull)
          ELSE CASE kind = "BS" -> Ok([EmptyAV EXCEPT !.BS = Some(r.items)])
                 [] kind = "NS" -> Ok([EmptyAV EXCEPT !.NS = Some(r.items)])
                 [] kind = "SS" -> Ok([EmptyAV EXCEPT !.SS = Some(r.items)])
                 [] OTHER -> Ok([EmptyAV EXCEPT !.L = Some(r.items)])
        of(kind) == built(kind, encodeList(e, v, fieldTag, kind))
    IN  of(SetKindOf(v, fieldTag))

\* Encoder.encodeSlice
encodeSlice(e, v, fieldTag) ==
  IF v.t = byteSliceType
    THEN IF v.x.len = 0 THEN Ok(encodeNull)
         ELSE Ok([EmptyAV EXCEPT
                    !.B = Some([i \in 1..v.x.len |-> ByteOf(v.x.arr[i])])])
  ELSE
    LET built(kind, r) ==
          IF r.err # "nil" THEN Fail(r.err)
          ELSE IF r.count = 0 THEN Ok(encodeNull)
          ELSE CASE kind = "BS" -> Ok([EmptyAV EXCEPT !.BS = Some(r.items)])
                 [] kind = "NS" -> Ok([EmptyAV EXCEPT !.NS = Some(r.items)])
                 [] kind = "SS" -> Ok([EmptyAV EXCEPT !.SS = Some(r.items)])
                 [] OTHER -> Ok([EmptyAV EXCEPT !.L = Some(r.items)])
        of(kind) == built(kind, encodeList(e, v, fieldTag, kind))
    IN  of(SetKindOf(v, fieldTag))

encode(e, v0, fieldTag) ==
  LET at(v) ==
        IF v.t.k # "invalid" /\ tryMarshaler(v).used THEN Handled(tryMarshaler(v))
        ELSE IF fieldTag.OmitEmpty /\ emptyValue(v) THEN Ok(encodeNull)
        ELSE CASE v.t.k = "invalid" -> Ok(encodeNull)
               [] v.t.k = "struct" -> encodeStruct(e, v)
               [] v.t.k = "map" -> encodeMap(e, v, fieldTag)
               [] v.t.k \in {"slice", "array"} -> encodeSlice(e, v, fieldTag)
               [] v.t.k \in SkippedKinds -> Ok(EmptyAV)
               [] OTHER -> encodeScalar(e, v, fieldTag)
  IN  at(valueElem(v0))

\* Encoder.Encode(in): in is an interface holding a value of type t, or nil
Encode(e, t, x) ==
  LET result(r) ==
        IF r.err # "nil" THEN [err |-> r.err, av |-> Nil]
        ELSE [err |-> "nil", av |-> Some(r.av)]
  IN  result(encode(e, IF t.k = "invalid" THEN Invalid ELSE RV(t, x, FALSE), NoTag))

(***************************************************************************)
(* The Decoder.  A decoding operator takes the reflect.Value v of the      *)
(* location it writes and returns [err, x, hooked]: the error, the new     *)
(* value of the location, and whether an Unmarshaler hook took over.       *)
(* pk: the key a map iteration visits first (Go leaves the order open).    *)
(***************************************************************************)
RECURSIVE Zero0(_)
RECURSIVE ZeroFields(_, _)

\* reflect.Zero(t)
Zero0(t) ==
  CASE t.k = "bool" -> VBool(FALSE)
    [] t.k = "string" -> VStr(<<>>)
    [] t.k \in IntKinds \cup UintKinds -> VInt(t.k, FALSE, Zero)
    [] t.k \in FloatKinds -> VFloat(FALSE, Zero, <<>>)
    [] t.k = "ptr" -> VNilPtr
    [] t.k = "slice" -> VNilSlice
    [] t.k = "map" -> VNilMap
    [] t.k = "interface" -> VNilIface
    [] t.k = "array" -> VArray([i \in 1..t.len |-> Zero0(t.elem)])
    [] t.k = "struct" -> VStruct(ZeroFields(t.fields, 1))
    [] OTHER -> [k |-> t.k]

ZeroFields(fs, i) ==
  IF i > Len(fs) THEN <<>> ELSE <<Zero0(fs[i].typ)>> \o ZeroFields(fs, i + 1)

Done(x) == [err |-> "nil", x |-> x, hooked |-> FALSE]

Err(e, x) == [err |-> e, x |-> x, hooked |-> FALSE]

\* what indirect's caller does at the location indirect returns
Job(op, arg, tg, hav) == [op |-> op, arg |-> arg, tg |-> tg, hav |-> hav]

\* UnmarshalDynamoDBAttributeValue of a hooked type: records the wire value
\* it was given
Unmarshaler(x, avp) ==
  [err |-> "nil", x |-> [x EXCEPT !.calls = Append(@, avp)], hooked |-> TRUE]

IsNullAV(avp) == avp = Nil \/ avp[1].NULL # Nil

\* fieldByName: the field whose wire name is exactly k
fieldByName(fields, k) ==
  IF \E i \in 1..Len(fields) : fields[i].Name = k
    THEN [ok |-> TRUE,
          i |-> CHOOSE i \in 1..Len(fields) :
                  /\ fields[i].Name = k
                  /\ \A j \in 1..(i - 1) : fields[j].Name # k]
    ELSE [ok |-> FALSE, i |-> 0]

\* v.OverflowInt(i), v.OverflowUint(u)
OverflowInt(k, n) ==
  k = "int8" /\ IF n.neg THEN MagLess(Pow7, n.mag) ELSE MagLeq(Pow7, n.mag)

OverflowUint(k, n) == k = "uint8" /\ MagLess(MaxUint8, n.mag)

OverflowFloat(k, f) == FALSE

\* a disambiguation that tries the unsigned parse first
decodeNumberToInterface_UintFirst(n) ==
  LET first(i, u, f) ==
        IF u.err = "nil"
          THEN [err |-> "nil", t |-> Scalar("uint"), x |-> VInt("uint", FALSE, u.mag)]
        ELSE IF i.err = "nil"
          THEN [err |-> "nil", t |-> Scalar("int"), x |-> VInt("int", i.neg, i.mag)]
        ELSE IF f.err = "nil"
          THEN [err |-> "nil", t |-> Scalar("float64"), x |-> VFloat(f.neg, f.ip, f.fp)]
        ELSE [err |-> "NumError", t |-> Scalar("float64"), x |-> VFloat(FALSE, Zero, <<>>)]
  IN  first(ParseInt(n), ParseUint(n), ParseFloat(n))

\* Decoder.decodeNumberToInterface
decodeNumberToInterface(n) ==
  LET first(i, u, f) ==
        IF i.err = "nil"
          THEN [err |-> "nil", t |-> Scalar("int"), x |-> VInt("int", i.neg, i.mag)]
        ELSE IF u.err = "nil"
          THEN [err |-> "nil", t |-> Scalar("uint"), x |-> VInt("uint", FALSE, u.mag)]
        ELSE IF f.err = "nil"
          THEN [err |-> "nil", t |-> Scalar("float64"), x |-> VFloat(f.neg, f.ip, f.fp)]
        ELSE [err |-> "NumError", t |-> Scalar("float64"), x |-> VFloat(FALSE, Zero, <<>>)]
  IN  first(ParseInt(n), ParseUint(n), ParseFloat(n))

decodeNumber(n, v) ==
  LET any(r) == IF r.err # "nil" THEN Err(r.err, v.x) ELSE Done(VIface(r.t, r.x))
      int(i) ==
        IF i.err # "nil" THEN Err("NumError", v.x)
        ELSE IF OverflowInt(v.t.k, i) THEN Err(i.err, v.x)
        ELSE Done(VInt(v.t.k, i.neg, i.mag))
      uint(i) ==
        IF i.err # "nil" THEN Err("NumError", v.x)
        ELSE IF OverflowUint(v.t.k, i) THEN Err(i.err, v.x)
        ELSE Done(VInt(v.t.k, FALSE, i.mag))
      float(i) ==
        IF i.err # "nil" THEN Err("NumError", v.x)
        ELSE IF OverflowFloat(v.t.k, i) THEN Err(i.err, v.x)
        ELSE Done(VFloat(i.neg, i.ip, i.fp))
  IN  CASE v.t.k = "interface" -> any(decodeNumberToInterface(n))
        [] v.t.k \in IntKinds -> int(ParseInt(n))
        [] v.t.k \in UintKinds -> uint(ParseUint(n))
        [] v.t.k \in FloatKinds -> float(ParseFloat(n))
        [] OTHER -> Err("UnmarshalTypeError", v.x)

decodeString(s, v, fieldTag) ==
  IF fieldTag.AsString THEN decodeNumber(s, v)
  ELSE IF v.t.k = "string" THEN Done(VStr(s))
  ELSE IF v.t.k = "interface" THEN Done(VIface(Scalar("string"), VStr(s)))
  ELSE Err("UnmarshalTypeError", v.x)

decodeBool(b, v) ==
  IF v.t.k = "bool" THEN Done(VBool(b))
  ELSE IF v.t.k = "interface" THEN Done(VIface(Scalar("bool"), VBool(b)))
  ELSE Err("UnmarshalTypeError", v.x)

Bytes(b) == [i \in 1..Len(b) |-> VByte(b[i])]

decodeBinary(b, v) ==
  IF v.t.k = "interface" THEN Done(VIface(byteSliceType, VSlice(Bytes(b))))
  ELSE IF v.t = byteSliceType
    THEN IF v.x.nil \/ Len(v.x.arr) < Len(b)
           THEN Done(VSlice(Bytes(b)))
           ELSE Done([k |-> "slice", nil |-> FALSE, len |-> Len(b),
                      arr |-> [i \in 1..Len(v.x.arr) |->
                                 IF i <= Len(b) THEN VByte(b[i]) ELSE v.x.arr[i]]])
  ELSE IF v.t.k = "array" /\ v.t.elem.k = "uint8"
    THEN Done(VArray([i \in 1..Len(v.x.arr) |->
                        IF i <= Len(b) THEN VByte(b[i]) ELSE v.x.arr[i]]))
  ELSE Err("UnmarshalTypeError", v.x)

\* a decodeNull that leaves the location as it is
decodeNull_Keep(v) == Done(v.x)

\* Decoder.decodeNull: v.Set(reflect.Zero(v.Type())) when v.CanSet()
decodeNull(v) == IF v.addr THEN Done(Zero0(v.t)) ELSE Done(v.x)

\* the slice that the set and list decoders make room in
MakeRoom(v, n) ==
  IF v.t.k = "slice" /\ (v.x.nil \/ Len(v.x.arr) < n)
    THEN [k |-> "slice", nil |-> FALSE, len |-> 0,
          arr |-> [i \in 1..n |-> Zero0(v.t.elem)]]
    ELSE v.x

NextKey(keys, pk) == IF pk \in keys THEN pk ELSE CHOOSE k \in keys : TRUE

RECURSIVE decode(_, _, _, _, _)
RECURSIVE indirectLoop(_, _, _, _, _)
RECURSIVE dispatch(_, _, _, _, _)
RECURSIVE decodeElems(_, _, _, _, _, _, _)
RECURSIVE decodeToIfaces(_, _, _, _, _)
RECURSIVE decodeMapKeys(_, _, _, _, _)
RECURSIVE decodeStructKeys(_, _, _, _, _)

\* the step indirect's caller takes with the location indirect returned
Apply(d, job, v, decodingNull, pk) ==
  CASE job.op = "binary" -> decodeBinary(job.arg, v)
    [] job.op = "number" -> decodeNumber(job.arg, v)
    [] job.op = "string" -> decodeString(job.arg, v, job.tg)
    [] OTHER -> IF decodingNull THEN decodeNull(v)
                ELSE dispatch(d, job.arg[1], v, job.tg, pk)

\* the loop of indirect, followed by the caller's step at the location found;
\* the values of the pointers walked through are rebuilt on the way back
indirectLoop(d, job, v, decodingNull, pk) ==
  LET held(t, r) == [r EXCEPT !.x = VIface(t, r.x)]
      pointed(r) == [r EXCEPT !.x = VPtr(r.x)]
      through(pointee) ==
        IF v.t.elem.k = "struct" /\ v.t.elem.hook
          THEN pointed(Unmarshaler(pointee, job.hav))
          ELSE pointed(indirectLoop(d, job, RV(v.t.elem, pointee, TRUE), decodingNull, pk))
  IN  IF /\ v.t.k = "interface" /\ ~v.x.nil
         /\ v.x.dyn[1].t.k = "ptr" /\ ~v.x.dyn[1].x.nil
         /\ (~decodingNull \/ v.x.dyn[1].t.elem.k = "ptr")
        THEN held(v.x.dyn[1].t,
                  indirectLoop(d, job, RV(v.x.dyn[1].t, v.x.dyn[1].x, FALSE),
                               decodingNull, pk))
      ELSE IF \/ v.t.k # "ptr"
              \/ (v.x.nil \/ v.t.elem.k # "ptr") /\ decodingNull /\ v.addr
        THEN Apply(d, job, v, decodingNull, pk)
      ELSE through(IF v.x.nil THEN Zero0(v.t.elem) ELSE v.x.elem[1])

\* indirect and the caller's step: a named non-pointer addressable value is
\* looked at through its address first, which finds the hook of its pointer
indirect(d, job, v, decodingNull, pk) ==
  IF v.t.k = "struct" /\ v.t.hook /\ v.addr
    THEN Unmarshaler(v.x, job.hav)
    ELSE indirectLoop(d, job, v, decodingNull, pk)

decode(d, avp, v, fieldTag, pk) ==
  indirect(d, Job("decode", avp, fieldTag, avp), v, IsNullAV(avp), pk)

\* the loop of decodeBinarySet, decodeNumberSet, decodeStringSet and
\* decodeList over the elements i..; x is the sequence value so far.
\* The sets call indirect(elem, false) and then the scalar decoder; the
\* list calls d.decode(items[i], elem), which is indirect with the null
\* test of decode (line 79) and then the dispatch on the variant.
decodeElems(d, kind, items, v, x, i, pk) ==
  LET cap == Len(x.arr)
  IN  IF i > cap \/ i > Len(items) THEN Done(x)
      ELSE IF v.t.k = "array" THEN Err("panic", x)
      ELSE
        LET elem == RV(v.t.elem, x.arr[i], TRUE)
            hav  == CASE kind = "BS" -> Some([EmptyAV EXCEPT !.BS = Some(items)])
                      [] kind = "NS" -> Some([EmptyAV EXCEPT !.NS = Some(items)])
                      [] kind = "SS" -> Some([EmptyAV EXCEPT !.SS = Some(items)])
                      [] OTHER -> items[i]
            op   == CASE kind = "BS" -> "binary"
                      [] kind = "NS" -> "number"
                      [] kind = "SS" -> "string"
                      [] OTHER -> "decode"
            set(r, x2) ==
              IF r.err # "nil" THEN Err(r.err, x2)
              ELSE IF r.hooked /\ kind # "L" THEN Done(x2)
              ELSE decodeElems(d, kind, items, v, x2, i + 1, pk)
            got(r) == set(r, [x EXCEPT !.len = i, !.arr[i] = r.x])
        IN  got(indirect(d, Job(op, items[i], NoTag, hav), elem,
                         kind = "L" /\ IsNullAV(items[i]), pk))

\* the Interface case of the set and list decoders: element i.. into a
\* fresh slice of element type et; xs the elements so far
decodeToIfaces(d, kind, items, xs, pk) ==
  LET i == Len(xs) + 1
  IN  IF i > Len(items) THEN Done(xs)
      ELSE
        LET got(r) ==
              IF r.err # "nil" THEN Err(r.err, xs)
              ELSE decodeToIfaces(d, kind, items, Append(xs, r.x), pk)
        IN  got(CASE kind = "BS" ->
                       decodeBinary(items[i], RV(byteSliceType, VNilSlice, TRUE))
                  [] kind = "NS" -> decodeNumber(items[i], RV(Iface, VNilIface, TRUE))
                  [] kind = "SS" ->
                       decodeString(items[i], RV(Scalar("string"), VStr(<<>>), TRUE), NoTag)
                  [] OTHER -> decode(d, items[i], RV(Iface, VNilIface, TRUE), NoTag, pk))

IfaceElemType(kind) ==
  CASE kind = "BS" -> byteSliceType
    [] kind = "SS" -> Scalar("string")
    [] OTHER -> Iface

\* decodeBinarySet, decodeNumberSet, decodeStringSet, decodeList
decodeSeq(d, kind, items, v, pk) ==
  IF v.t.k \in {"slice", "array"}
    THEN decodeElems(d, kind, items, v, MakeRoom(v, Len(items)), 1, pk)
  ELSE IF v.t.k = "interface"
    THEN LET set(r) ==
               IF r.err # "nil" THEN Err(r.err, v.x)
               ELSE Done(VIface(SliceOf(IfaceElemType(kind)), VSlice(r.x)))
         IN  set(decodeToIfaces(d, kind, items, <<>>, pk))
  ELSE Err("UnmarshalTypeError", v.x)

decodeBinarySet(d, bs, v, pk) == decodeSeq(d, "BS", bs, v, pk)

decodeNumberSet(d, ns, v, pk) == decodeSeq(d, "NS", ns, v, pk)

decodeStringSet(d, ss, v, pk) == decodeSeq(d, "SS", ss, v, pk)

decodeList(d, avList, v, pk) == decodeSeq(d, "L", avList, v, pk)

\* the loop of decodeMap over a map target; m is the map so far
decodeMapKeys(d, avMap, keys, vm, pk) ==
  IF keys = {} THEN Done(vm.x)
  ELSE
    LET put(k, r) ==
          IF r.err # "nil" THEN Err(r.err, vm.x)
          ELSE decodeMapKeys(d, avMap, keys \ {k},
                             [vm EXCEPT !.x = VMap(MapPut(vm.x.m, VStr(k), r.x))], pk)
        at(k) == put(k, decode(d, avMap[k], RV(vm.t.elem, Zero0(vm.t.elem), TRUE), NoTag, pk))
    IN  at(NextKey(keys, pk))

\* the loop of decodeMap over a struct target
decodeStructKeys(d, avMap, keys, v, pk) ==
  IF keys = {} THEN Done(v.x)
  ELSE
    LET set(k, r, x) ==
          IF r.err # "nil" THEN Err(r.err, x)
          ELSE decodeStructKeys(d, avMap, keys \ {k}, [v EXCEPT !.x = x], pk)
        got(k, i, r) == set(k, r, [v.x EXCEPT !.fv[i] = r.x])
        into(k, fields, f) ==
          IF ~f.ok THEN decodeStructKeys(d, avMap, keys \ {k}, v, pk)
          ELSE got(k, f.i,
                   decode(d, avMap[k], RV(fields[f.i].typ, v.x.fv[f.i], v.addr),
                          fields[f.i].tag, pk))
        at(k, fields) == into(k, fields, fieldByName(fields, k))
    IN  at(NextKey(keys, pk), unionStructFields(v.t, d))

decodeMap(d, avMap, v, pk) ==
  CASE v.t.k = "map" ->
         IF v.t.key.k # "string" THEN Err("UnmarshalTypeError", v.x)
         ELSE decodeMapKeys(d, avMap, DOMAIN avMap,
                            [v EXCEPT !.x = IF v.x.nil THEN VMap(EmptyMap) ELSE v.x], pk)
    [] v.t.k = "struct" -> decodeStructKeys(d, avMap, DOMAIN avMap, v, pk)
    [] v.t.k = "interface" ->
         LET held(r) == [r EXCEPT !.x = VIface(stringInterfaceMapType, r.x)]
         IN  held(decodeMapKeys(d, avMap, DOMAIN avMap,
                                RV(stringInterfaceMapType, VMap(EmptyMap), FALSE), pk))
    [] OTHER -> Err("UnmarshalTypeError", v.x)

\* a switch that treats a value without a populated variant as a null
dispatch_UnsetIsNull(d, av, v, fieldTag, pk) ==
  CASE av.B # Nil /\ Len(av.B[1]) # 0 -> decodeBinary(av.B[1], v)
    [] av.BOOL # Nil -> decodeBool(av.BOOL[1], v)
    [] av.BS # Nil /\ Len(av.BS[1]) # 0 -> decodeBinarySet(d, av.BS[1], v, pk)
    [] av.L # Nil /\ Len(av.L[1]) # 0 -> decodeList(d, av.L[1], v, pk)
    [] av.M # Nil /\ DOMAIN av.M[1] # {} -> decodeMap(d, av.M[1], v, pk)
    [] av.N # Nil -> decodeNumber(av.N[1], v)
    [] av.NS # Nil /\ Len(av.NS[1]) # 0 -> decodeNumberSet(d, av.NS[1], v, pk)
    [] av.S # Nil -> decodeString(av.S[1], v, fieldTag)
    [] av.SS # Nil /\ Len(av.SS[1]) # 0 -> decodeStringSet(d, av.SS[1], v, pk)
    [] OTHER -> decodeNull(v)

\* the switch of Decoder.decode on the populated variant
dispatch(d, av, v, fieldTag, pk) ==
  CASE av.B # Nil /\ Len(av.B[1]) # 0 -> decodeBinary(av.B[1], v)
    [] av.BOOL # Nil -> decodeBool(av.BOOL[1], v)
    [] av.BS # Nil /\ Len(av.BS[1]) # 0 -> decodeBinarySet(d, av.BS[1], v, pk)
    [] av.L # Nil /\ Len(av.L[1]) # 0 -> decodeList(d, av.L[1], v, pk)
    [] av.M # Nil /\ DOMAIN av.M[1] # {} -> decodeMap(d, av.M[1], v, pk)
    [] av.N # Nil -> decodeNumber(av.N[1], v)
    [] av.NS # Nil /\ Len(av.NS[1]) # 0 -> decodeNumberSet(d, av.NS[1], v, pk)
    [] av.S # Nil -> decodeString(av.S[1], v, fieldTag)
    [] av.SS # Nil /\ Len(av.SS[1]) # 0 -> decodeStringSet(d, av.SS[1], v, pk)
    [] OTHER -> Done(v.x)

\* a Decode that only rejects what is not a pointer
Decode_NoNilCheck(d, avp, t, x, pk) ==
  IF t.k # "ptr" THEN Err("InvalidUnmarshalError", x)
  ELSE decode(d, avp, RV(t, x, FALSE), NoTag, pk)

\* Decoder.Decode(av, out): out is an interface holding a value of type t
\* (t.k = "invalid" for a nil interface)
Decode(d, avp, t, x, pk) ==
  IF t.k # "ptr" \/ x.nil THEN Err("InvalidUnmarshalError", x)
  ELSE decode(d, avp, RV(t, x, FALSE), NoTag, pk)

(***************************************************************************)
(* Inputs: the native values given to Encode.                              *)
(***************************************************************************)
MinInt64 == VInt("int", TRUE, Pow63)

MaxUint64Val == VInt("uint", FALSE, MaxUint64)

ScalarKinds ==
  {"bool", "string", "int8", "int", "uint8", "uint", "float64", "complex128", "func"}

ScalarVals(k) ==
  CASE k = "bool" -> {VBool(FALSE), VBool(TRUE)}
    [] k = "string" -> {VStr(<<>>), VStr(<<"a">>), VStr(<<"b">>)}
    [] k = "int8" -> {VInt("int8", FALSE, Zero), VInt("int8", TRUE, Pow7)}
    [] k = "int" -> {VInt("int", FALSE, Zero), VInt("int", FALSE, <<1, 2, 3>>), MinInt64}
    [] k = "uint8" -> {VInt("uint8", FALSE, Zero), VInt("uint8", FALSE, <<4, 8>>)}
    [] k = "uint" -> {VInt("uint", FALSE, Zero), MaxUint64Val}
    [] k = "float64" -> {VFloat(FALSE, Zero, <<>>), VFloat(TRUE, <<1, 2, 3>>, <<5>>)}
    [] k = "complex128" -> {VComplex}
    [] OTHER -> {VFunc}

SeqsUpTo(S, n) == UNION {[1..k -> S] : k \in 0..n}

MapsUpTo(K, S, n) ==
  UNION {[D -> S] : D \in {D \in SUBSET K : Cardinality(D) <= n}}

MapKeys(kt) ==
  IF kt.k = "string" THEN {VStr(<<"a">>), VStr(<<"b">>), VStr(<<>>)}
  ELSE {VInt("int", FALSE, <<1>>)}

\* what an interface value holds in the inputs
IfaceVals ==
  {VNilIface, VIface(Scalar("int8"), VInt("int8", TRUE, Pow7)),
   VIface(Scalar("string"), VStr(<<"a">>)),
   VIface(PtrTo(Scalar("string")), VPtr(VStr(<<"a">>)))}

RECURSIVE Vals(_, _)
RECURSIVE FieldVals(_, _, _)

\* the values of type t with sequences and maps of at most n elements
\* (one element below the top level)
Vals(t, n) ==
  CASE t.k \in ScalarKinds -> ScalarVals(t.k)
    [] t.k = "interface" -> IfaceVals
    [] t.k = "ptr" -> {VNilPtr} \cup {VPtr(x) : x \in Vals(t.elem, n)}
    [] t.k = "slice" ->
         {VNilSlice} \cup {VSlice(xs) : xs \in SeqsUpTo(Vals(t.elem, 1), n)}
    [] t.k = "array" -> {VArray(xs) : xs \in [1..t.len -> Vals(t.elem, 1)]}
    [] t.k = "map" ->
         {VNilMap} \cup {VMap(m) : m \in MapsUpTo(MapKeys(t.key), Vals(t.elem, 1), n)}
    [] OTHER -> {VStruct(fv) : fv \in FieldVals(t.fields, 1, n)}

FieldVals(fs, i, n) ==
  IF i > Len(fs) THEN {<<>>}
  ELSE {<<x>> \o rest : x \in Vals(fs[i].typ, n), rest \in FieldVals(fs, i + 1, n)}

T0 == {Scalar(k) : k \in ScalarKinds} \cup {Iface}

T1 ==
  T0 \cup {PtrTo(t) : t \in T0} \cup {SliceOf(t) : t \in T0}
     \cup {MapOf(Scalar("string"), t) : t \in T0}
     \cup {MapOf(Scalar("int"), Scalar("int")), ArrayOf(1, Scalar("int")),
           ArrayOf(2, Scalar("uint8")), ArrayOf(0, Scalar("string"))}

T2 ==
  {byteSliceSlicetype, PtrTo(PtrTo(Scalar("string"))), PtrTo(SliceOf(Scalar("int"))),
   SliceOf(PtrTo(Scalar("string"))), SliceOf(PtrTo(Scalar("int"))),
   SliceOf(SliceOf(Scalar("int"))), MapOf(Scalar("string"), SliceOf(Scalar("string"))),
   MapOf(Scalar("string"), PtrTo(Scalar("int")))}

Tags ==
  {NoTag,
   tag(TRUE, FALSE, FALSE, FALSE, FALSE, FALSE),
   tag(FALSE, TRUE, FALSE, FALSE, FALSE, FALSE),
   tag(FALSE, FALSE, TRUE, FALSE, FALSE, FALSE),
   tag(FALSE, FALSE, FALSE, TRUE, FALSE, FALSE),
   tag(FALSE, FALSE, FALSE, FALSE, TRUE, FALSE),
   tag(FALSE, FALSE, FALSE, FALSE, FALSE, TRUE),
   tag(FALSE, TRUE, FALSE, FALSE, TRUE, FALSE),
   tag(FALSE, TRUE, FALSE, FALSE, FALSE, TRUE),
   tag(TRUE, FALSE, TRUE, FALSE, FALSE, FALSE)}

NameF == <<"F">>

NameG == <<"G">>

\* struct{ F t `dynamodbav:",opts"` }
OneField(tg, t) == StructOf(<<Field(NameF, tg, t)>>, FALSE)

\* testOmitEmptyStruct
testOmitEmptyStruct ==
  StructOf(<<Field(<<"V", "a", "l", "u", "e">>, tag(TRUE, FALSE, FALSE, FALSE, FALSE, FALSE), Scalar("string")),
             Field(<<"V", "a", "l", "u", "e", "2">>, tag(TRUE, FALSE, FALSE, FALSE, FALSE, FALSE), PtrTo(Scalar("string"))),
             Field(<<"V", "a", "l", "u", "e", "3">>, NoTag, Scalar("int"))>>, FALSE)

\* a struct whose pointer implements the Marshaler and Unmarshaler hooks
HookedStruct == StructOf(<<Field(NameF, NoTag, Scalar("int"))>>, TRUE)

\* a struct with a field whose resolved name is empty
NamelessStruct == StructOf(<<Field(<<>>, NoTag, Scalar("int"))>>, FALSE)

EmptyStruct == StructOf(<<>>, FALSE)

S1 ==
  {OneField(tg, t) : tg \in Tags, t \in T1 \cup T2}
    \cup {testOmitEmptyStruct, HookedStruct, NamelessStruct, EmptyStruct}
    \cup {StructOf(<<Field(NameF, tg, Scalar(k)), Field(NameG, NoTag, Scalar("bool"))>>,
                    FALSE) :
             k \in {"func", "complex128"},
             tg \in {NoTag, tag(TRUE, FALSE, FALSE, FALSE, FALSE, FALSE)}}

\* types that nest a struct
S2 ==
  LET inner == {OneField(NoTag, Scalar("int")),
                OneField(tag(TRUE, FALSE, FALSE, FALSE, FALSE, FALSE), Scalar("string")),
                HookedStruct, EmptyStruct}
  IN  {PtrTo(s) : s \in inner} \cup {SliceOf(s) : s \in inner}
        \cup {MapOf(Scalar("string"), s) : s \in inner}
        \cup {StructOf(<<Field(NameF, tg, s), Field(NameG, NoTag, Scalar("bool"))>>, FALSE) :
                s \in inner, tg \in {NoTag, tag(TRUE, FALSE, FALSE, FALSE, FALSE, FALSE)}}

EncTypes == T1 \cup T2 \cup S1 \cup S2

\* the encoders: NewEncoder() and NewEncoder with NullEmptyString off
Encoders ==
  {[SupportJSONTags |-> TRUE, NullEmptyString |-> b] : b \in BOOLEAN}

\* NewDecoder()
NewDecoder == [SupportJSONTags |-> TRUE]

NoValue == [t |-> [k |-> "invalid"], x |-> [k |-> "invalid"]]

(***************************************************************************)
(* Inputs: the wire values and the targets given to Decode.                *)
(***************************************************************************)
NumTexts ==
  {<<"1", "2", "3">>,
   <<"-", "5">>,
   <<"0">>,
   <<"3", "0", "0">>,
   <<"2", "5", "5">>,
   <<"2", "5", "6">>,
   <<"1", "2", "7">>,
   <<"1", "2", "8">>,
   <<"-", "1", "2", "8">>,
   <<"-", "1", "2", "9">>,
   <<"1", "2", "3", ".", "5">>,
   <<"9", "2", "2", "3", "3", "7", "2", "0", "3", "6", "8", "5", "4", "7", "7", "5", "8", "0", "7">>,
   <<"9", "2", "2", "3", "3", "7", "2", "0", "3", "6", "8", "5", "4", "7", "7", "5", "8", "0", "8">>,
   <<"1", "8", "4", "4", "6", "7", "4", "4", "0", "7", "3", "7", "0", "9", "5", "5", "1", "6", "1", "5">>,
   <<"1", "8", "4", "4", "6", "7", "4", "4", "0", "7", "3", "7", "0", "9", "5", "5", "1", "6", "1", "6">>,
   <<"-", "9", "2", "2", "3", "3", "7", "2", "0", "3", "6", "8", "5", "4", "7", "7", "5", "8", "0", "8">>,
   <<"-", "9", "2", "2", "3", "3", "7", "2", "0", "3", "6", "8", "5", "4", "7", "7", "5", "8", "0", "9">>,
   <<"a">>,
   <<>>,
   <<"+", "7">>,
   <<"0", "0", "7">>,
   <<"-", "0">>,
   <<"1", ".">>,
   <<".", "5">>,
   <<"-">>,
   <<"1", ".", "2", ".", "3">>}

T123 == <<"1", "2", "3">>

T300 == <<"3", "0", "0">>

TMaxUint64 == CharsOf(MaxUint64)

avN(t) == Some([EmptyAV EXCEPT !.N = Some(t)])

avS(t) == Some([EmptyAV EXCEPT !.S = Some(t)])

avBOOL(b) == Some([EmptyAV EXCEPT !.BOOL = Some(b)])

avB(b) == Some([EmptyAV EXCEPT !.B = Some(b)])

avNULL(b) == Some([EmptyAV EXCEPT !.NULL = Some(b)])

avBS(bs) == Some([EmptyAV EXCEPT !.BS = Some(bs)])

avNS(ns) == Some([EmptyAV EXCEPT !.NS = Some(ns)])

avSS(ss) == Some([EmptyAV EXCEPT !.SS = Some(ss)])

avL(l) == Some([EmptyAV EXCEPT !.L = Some(l)])

avM(m) == Some([EmptyAV EXCEPT !.M = Some(m)])

WireScalars ==
  {avN(t) : t \in NumTexts}
    \cup {avS(t) : t \in {<<>>, <<"a">>, T123, T300}}
    \cup {avBOOL(b) : b \in BOOLEAN} \cup {avNULL(b) : b \in BOOLEAN}
    \cup {avB(<<48, 49>>), avB(<<>>), Some(EmptyAV), Nil}
    \cup {avBS(<<>>), avNS(<<>>), avSS(<<>>)}

\* the elements of the wire lists and maps
WireSample ==
  {avN(T123), avN(T300), avN(TMaxUint64), avN(<<"1", ".", "5">>), avN(<<"a">>),
   avS(<<"a">>), avBOOL(TRUE), avB(<<48, 49>>), avNULL(TRUE), Nil}

\* the values of the wire maps
MapSample == {avN(T123), avN(T300), avS(<<"a">>), avBOOL(TRUE), avNULL(TRUE)}

SeqsFrom1(S, n) == UNION {[1..k -> S] : k \in 1..n}

WireKeys == {NameF, <<"a">>, <<"b">>}

WireMaps(S, n) ==
  UNION {[D -> S] : D \in {D \in SUBSET WireKeys : Cardinality(D) \in 1..n}}

WireSets(n) ==
  {avBS(bs) : bs \in SeqsFrom1({<<48, 49>>, <<50>>}, n)}
    \cup {avNS(ns) : ns \in SeqsFrom1({T123, T300, TMaxUint64, <<"1", ".", "5">>, <<"a">>}, n)}
    \cup {avSS(ss) : ss \in SeqsFrom1({<<"a">>, <<>>, T123}, n)}

WireNested ==
  LET inner == WireSets(1) \cup {avL(l) : l \in SeqsFrom1(WireSample, 1)}
                 \cup {avM(m) : m \in WireMaps({avN(T123), avBOOL(TRUE), avNULL(TRUE)}, 1)}
  IN  {avL(<<w>>) : w \in inner} \cup {avM([k \in {NameF} |-> w]) : w \in inner}

WireValues ==
  WireScalars \cup WireSets(MaxLen) \cup WireNested
    \cup {avL(l) : l \in SeqsFrom1(WireSample, MaxLen)}
    \cup {avM(m) : m \in WireMaps(MapSample, MaxLen)}
    \cup {avM([k \in {NameF} |-> w]) : w \in WireScalars}

\* a populated value of type t
RECURSIVE Populated(_)
RECURSIVE PopulatedFields(_, _)
Populated(t) ==
  CASE t.k = "bool" -> VBool(TRUE)
    [] t.k = "string" -> VStr(<<"z">>)
    [] t.k \in IntKinds \cup UintKinds -> VInt(t.k, FALSE, <<7>>)
    [] t.k \in FloatKinds -> VFloat(FALSE, <<7>>, <<5>>)
    [] t.k = "ptr" -> VPtr(Populated(t.elem))
    [] t.k = "slice" ->
         [k |-> "slice", nil |-> FALSE, len |-> 1,
          arr |-> <<Populated(t.elem), Populated(t.elem)>>]
    [] t.k = "map" ->
         VMap([k \in {IF t.key.k = "string" THEN VStr(<<"a">>) ELSE VInt("int", FALSE, <<1>>)}
                 |-> Populated(t.elem)])
    [] t.k = "interface" -> VIface(Scalar("string"), VStr(<<"z">>))
    [] t.k = "array" -> VArray([i \in 1..t.len |-> Populated(t.elem)])
    [] t.k = "struct" -> VStruct(PopulatedFields(t.fields, 1))
    [] OTHER -> [k |-> t.k]

PopulatedFields(fs, i) ==
  IF i > Len(fs) THEN <<>> ELSE <<Populated(fs[i].typ)>> \o PopulatedFields(fs, i + 1)

AsStringTag == tag(FALSE, FALSE, TRUE, FALSE, FALSE, FALSE)

DecTypes ==
  T0 \cup {PtrTo(t) : t \in T0} \cup T2
     \cup {SliceOf(Scalar(k)) : k \in {"string", "int", "int8", "uint8", "uint", "bool", "float64"}}
     \cup {SliceOf(Iface), SliceOf(HookedStruct), PtrTo(HookedStruct), HookedStruct,
           OneField(NoTag, HookedStruct), MapOf(Scalar("string"), HookedStruct),
           testOmitEmptyStruct, EmptyStruct,
           ArrayOf(1, Scalar("int")), ArrayOf(2, Scalar("uint8")),
           ArrayOf(0, Scalar("string")), ArrayOf(1, Scalar("string")),
           MapOf(Scalar("int"), Scalar("int"))}
     \cup {MapOf(Scalar("string"), t) :
             t \in {Scalar("int"), Scalar("string"), Scalar("bool"), Iface, PtrTo(Scalar("string"))}}
     \cup {OneField(tg, t) :
             tg \in {NoTag, AsStringTag},
             t \in {Scalar("int"), Scalar("int8"), Scalar("uint8"), Scalar("float64"),
                    Scalar("string"), Scalar("bool"), Iface,
                    PtrTo(Scalar("string")), PtrTo(PtrTo(Scalar("string"))), PtrTo(Scalar("int")),
                    SliceOf(Scalar("int")), SliceOf(Scalar("string")), byteSliceSlicetype,
                    MapOf(Scalar("string"), Scalar("int")), ArrayOf(1, Scalar("int")),
                    OneField(NoTag, Scalar("bool"))}}

\* the values a target of type t holds before the call
TargetVals(t) ==
  {Zero0(t), Populated(t)}
    \cup (IF t = Iface
            THEN {VIface(PtrTo(Scalar("int")), VPtr(VInt("int", FALSE, <<7>>))),
                  VIface(PtrTo(PtrTo(Scalar("string"))), VPtr(VPtr(VStr(<<"z">>))))}
            ELSE {})

\* the out arguments: pointers to the targets, and the outs Decode rejects
ValidOuts == UNION {{[t |-> PtrTo(t), x |-> VPtr(x)] : x \in TargetVals(t)} : t \in DecTypes}

InvalidOuts ==
  {NoValue,
   [t |-> Scalar("int"), x |-> VInt("int", FALSE, <<7>>)],
   [t |-> MapOf(Scalar("string"), Scalar("int")), x |-> VMap(EmptyMap)],
   [t |-> OneField(NoTag, Scalar("int")), x |-> Zero0(OneField(NoTag, Scalar("int")))],
   [t |-> PtrTo(Scalar("int")), x |-> VNilPtr],
   [t |-> PtrTo(OneField(NoTag, Scalar("int"))), x |-> VNilPtr]}

\* the keys a map iteration may visit first
FirstKeys(avp) == IF avp # Nil /\ avp[1].M # Nil THEN WireKeys ELSE {NameF}


(***************************************************************************)
(* The state: one call of the codec at a time.                             *)
(***************************************************************************)
VARIABLES pc, call, enc, in, av, err, target, out

vars == <<pc, call, enc, in, av, err, target, out>>

Init ==
  /\ pc = "idle"
  /\ call = "none"
  /\ enc = [SupportJSONTags |-> TRUE, NullEmptyString |-> TRUE]
  /\ in = NoValue
  /\ av = Nil
  /\ err = "nil"
  /\ target = NoValue
  /\ out = [k |-> "invalid"]

\* Encoder.Encode(in) on a value of one of the input types, or on nil
EncodeCall ==
  /\ pc = "idle"
  /\ \E e \in Encoders, t \in EncTypes \cup {[k |-> "invalid"]} :
       \E x \in (IF t.k = "invalid" THEN {[k |-> "invalid"]} ELSE Vals(t, MaxLen)) :
         \E r \in {Encode(e, t, x)} :
           /\ enc' = e
           /\ in' = [t |-> t, x |-> x]
           /\ av' = r.av
           /\ err' = r.err
  /\ pc' = "encoded"
  /\ call' = "Encode"
  /\ UNCHANGED <<target, out>>

\* Decoder.Decode of the value just encoded into new(T), T the type of in
DecodeBack ==
  /\ pc = "encoded"
  /\ err = "nil"
  /\ in.t.k # "invalid"
  /\ \E pk \in {<<"a">>, <<"b">>} :
       \E r \in {Decode(NewDecoder, av, PtrTo(in.t), VPtr(Zero0(in.t)), pk)} :
         /\ target' = [t |-> PtrTo(in.t), x |-> VPtr(Zero0(in.t))]
         /\ out' = r.x
         /\ err' = r.err
  /\ pc' = "decoded"
  /\ call' = "DecodeBack"
  /\ UNCHANGED <<enc, in, av>>

\* what a call of Decode does to the state
DecodeStep(name, avp, o, pk) ==
  \E r \in {Decode(NewDecoder, avp, o.t, o.x, pk)} :
    /\ av' = avp
    /\ target' = o
    /\ out' = r.x
    /\ err' = r.err
    /\ pc' = "decoded"
    /\ call' = name
    /\ UNCHANGED <<enc, in>>

\* Decoder.Decode(av, out)
DecodeCall ==
  /\ pc = "idle"
  /\ \E avp \in WireValues, o \in ValidOuts \cup InvalidOuts :
       \E pk \in FirstKeys(avp) : DecodeStep("Decode", avp, o, pk)

\* Unmarshal(av, out)
Unmarshal ==
  /\ pc = "idle"
  /\ \E avp \in WireScalars, o \in ValidOuts \cup InvalidOuts :
       DecodeStep("Unmarshal", avp, o, NameF)

\* UnmarshalMap(m, out)
UnmarshalMap ==
  /\ pc = "idle"
  /\ \E m \in WireMaps(MapSample, 1) \cup {EmptyMap}, o \in ValidOuts \cup InvalidOuts :
       DecodeStep("UnmarshalMap", avM(m), o, NameF)

\* UnmarshalList(l, out)
UnmarshalList ==
  /\ pc = "idle"
  /\ \E l \in SeqsUpTo(WireSample, 1), o \in ValidOuts \cup InvalidOuts :
       DecodeStep("UnmarshalList", avL(l), o, NameF)

\* the call has returned; the next one starts from scratch
Return ==
  /\ pc # "idle"
  /\ pc' = "idle"
  /\ call' = "none"
  /\ enc' = [SupportJSONTags |-> TRUE, NullEmptyString |-> TRUE]
  /\ in' = NoValue
  /\ av' = Nil
  /\ err' = "nil"
  /\ target' = NoValue
  /\ out' = [k |-> "invalid"]

Next ==
  \/ EncodeCall
  \/ DecodeBack
  \/ DecodeCall
  \/ Unmarshal
  \/ UnmarshalMap
  \/ UnmarshalList
  \/ Return

Spec == Init /\ [][Next]_vars

\* the calls of the Encoder, each followed by decoding its result
NextEncode == EncodeCall \/ DecodeBack \/ Return

SpecEncode == Init /\ [][NextEncode]_vars

\* the calls of the Decoder
NextDecode == DecodeCall \/ Unmarshal \/ UnmarshalMap \/ UnmarshalList \/ Return

SpecDecode == Init /\ [][NextDecode]_vars


(***************************************************************************)
(* Helpers of the properties.                                              *)
(***************************************************************************)
RECURSIVE Norm(_)

\* a value without what reflect.DeepEqual does not look at: the spare
\* capacity of a slice and the sign of a zero float
Norm(x) ==
  CASE x.k = "slice" ->
         [k |-> "slice", nil |-> x.nil, len |-> x.len,
          arr |-> [i \in 1..x.len |-> Norm(x.arr[i])]]
    [] x.k = "array" -> VArray([i \in 1..Len(x.arr) |-> Norm(x.arr[i])])
    [] x.k = "ptr" -> IF x.nil THEN x ELSE VPtr(Norm(x.elem[1]))
    [] x.k = "map" ->
         [k |-> "map", nil |-> x.nil, m |-> [key \in DOMAIN x.m |-> Norm(x.m[key])]]
    [] x.k = "struct" -> [x EXCEPT !.fv = [i \in 1..Len(x.fv) |-> Norm(x.fv[i])]]
    [] x.k = "interface" ->
         IF x.nil THEN x ELSE VIface(x.dyn[1].t, Norm(x.dyn[1].x))
    [] x.k = "float64" ->
         IF x.ip = Zero /\ Len(x.fp) = 0 THEN VFloat(FALSE, Zero, <<>>) ELSE x
    [] OTHER -> x

DeepEqual(a, b) == Norm(a) = Norm(b)

\* the value out points to after a Decode
Pointee(x) == x.elem[1]

\* the state after a Decode call that got a usable out
Decoded == pc = "decoded" /\ target.t.k = "ptr" /\ ~target.x.nil

\* the state after the encoded value was decoded into new(T)
TrippedBack == pc = "decoded" /\ call = "DecodeBack"

RECURSIVE Supported(_)

\* the shapes the round trip is stated for: scalars with a wire form,
\* structs, slices, string-keyed maps and pointers to these
Supported(t) ==
  CASE t.k \in {"bool", "string"} \cup NumKinds -> TRUE
    [] t.k \in {"ptr", "slice"} -> Supported(t.elem)
    [] t.k = "map" -> t.key.k = "string" /\ Supported(t.elem)
    [] t.k = "struct" ->
         /\ ~t.hook
         /\ \A i \in 1..Len(t.fields) :
              Len(t.fields[i].Name) > 0 /\ Supported(t.fields[i].typ)
    [] OTHER -> FALSE

RECURSIVE HasEmptyString(_, _)

\* an empty string somewhere in the value
HasEmptyString(t, x) ==
  CASE t.k = "string" -> Len(x.s) = 0
    [] t.k = "ptr" -> ~x.nil /\ HasEmptyString(t.elem, x.elem[1])
    [] t.k \in {"slice", "array"} ->
         \E i \in 1..(IF t.k = "slice" THEN x.len ELSE Len(x.arr)) :
           HasEmptyString(t.elem, x.arr[i])
    [] t.k = "map" ->
         \E key \in DOMAIN x.m :
           HasEmptyString(t.key, key) \/ HasEmptyString(t.elem, x.m[key])
    [] t.k = "struct" ->
         \E i \in 1..Len(t.fields) : HasEmptyString(t.fields[i].typ, x.fv[i])
    [] OTHER -> FALSE

\* the value encodes as wire NULL under the tag
EncodesNull(e, t, x, tg) == encode(e, RV(t, x, FALSE), tg).av.NULL # Nil

\* the element encodes to the sub-type of the wire set
FitsSet(kind, av1) ==
  CASE kind = "BS" -> av1.B # Nil
    [] kind = "NS" -> av1.N # Nil
    [] kind = "SS" -> av1.S # Nil
    [] OTHER -> TRUE

RECURSIVE Faithful(_, _, _, _)

\* nothing of the value is lost on the wire: what encodes as wire NULL or
\* is left out is nil or zero, nothing is dropped from a sequence or a
\* map, the elements of a set fit it, and the string option is on numbers
Faithful(e, t, x, tg) ==
  CASE t.k = "string" -> ~tg.AsString
    [] t.k = "ptr" ->
         x.nil \/ (Faithful(e, t.elem, x.elem[1], tg) /\ ~EncodesNull(e, t.elem, x.elem[1], tg))
    [] t.k = "slice" ->
         \/ x.nil
         \/ /\ x.len > 0
            /\ \/ t = byteSliceType
               \/ LET etg == [NoTag EXCEPT !.OmitEmpty = tg.OmitEmptyElem]
                  IN  \A i \in 1..x.len :
                        /\ Faithful(e, t.elem, x.arr[i], etg)
                        /\ ~(tg.OmitEmptyElem /\ EncodesNull(e, t.elem, x.arr[i], etg))
                        /\ FitsSet(SetKindOf(RV(t, x, FALSE), tg),
                                   encode(e, RV(t.elem, x.arr[i], TRUE), etg).av)
    [] t.k = "map" ->
         \/ x.nil
         \/ /\ DOMAIN x.m # {}
            /\ \A key \in DOMAIN x.m :
                 /\ Len(key.s) > 0
                 /\ Faithful(e, t.elem, x.m[key], NoTag)
                 /\ ~(tg.OmitEmptyElem /\ EncodesNull(e, t.elem, x.m[key], NoTag))
    [] t.k = "struct" ->
         \A i \in 1..Len(t.fields) :
           /\ Faithful(e, t.fields[i].typ, x.fv[i], t.fields[i].tag)
           /\ (t.fields[i].tag.OmitEmpty
                 /\ EncodesNull(e, t.fields[i].typ, x.fv[i], t.fields[i].tag)
                 => x.fv[i] = Zero0(t.fields[i].typ))
    [] OTHER -> TRUE

(***************************************************************************)
(* The properties.                                                         *)
(***************************************************************************)
\* the input of the round trip as the claim delimits it
C1_Scope ==
  /\ call \in {"Encode", "DecodeBack"}
  /\ Supported(in.t)
  /\ ~(enc.NullEmptyString /\ HasEmptyString(in.t, in.x))

\* C1 as stated: for every value of a supported shape without an empty
\* string under NullEmptyString, Encode succeeds, and decoding the result
\* into a zero value of the same type succeeds and gives the value back.
C1_RoundTripEveryValue ==
  C1_Scope =>
    /\ err = "nil"
    /\ TrippedBack => DeepEqual(Pointee(out), in.x)

\* C1 amended: the round trip gives the value back when nothing of the
\* value is lost on the wire (Faithful); a non-nil pointer, slice or map
\* whose content encodes as wire NULL comes back nil, and what omitempty
\* or omitemptyelem leaves out comes back as the zero value or not at all.
C1_RoundTripFaithful ==
  C1_Scope /\ Faithful(enc, in.t, in.x, NoTag) =>
    /\ err = "nil"
    /\ TrippedBack => DeepEqual(Pointee(out), in.x)

\* a struct with a set of two strings has made the round trip
C1_Witness ==
  /\ TrippedBack
  /\ C1_Scope
  /\ Faithful(enc, in.t, in.x, NoTag)
  /\ in.t = OneField(tag(FALSE, FALSE, FALSE, FALSE, FALSE, TRUE), SliceOf(Scalar("string")))
  /\ in.x = VStruct(<<VSlice(<<VStr(<<"a">>), VStr(<<"b">>)>>)>>)
  /\ err = "nil"


\* the wire value holds only the variant named
IsN(avp) == avp # Nil /\ avp[1].N # Nil /\ avp[1].NULL = Nil

IsNS(avp) == avp # Nil /\ avp[1].NS # Nil /\ avp[1].NULL = Nil

IsL(avp) == avp # Nil /\ avp[1].L # Nil /\ avp[1].NULL = Nil

IsM(avp) == avp # Nil /\ avp[1].M # Nil /\ avp[1].NULL = Nil

\* the text is a decimal that one of the three parses accepts
Parseable(n) ==
  ParseInt(n).err = "nil" \/ ParseUint(n).err = "nil" \/ ParseFloat(n).err = "nil"

\* the any-type value the claim gives the text n
ClaimedNumber(n) ==
  IF ParseInt(n).err = "nil"
    THEN VIface(Scalar("int"), VInt("int", ParseInt(n).neg, ParseInt(n).mag))
  ELSE IF ParseUint(n).err = "nil"
    THEN VIface(Scalar("uint"), VInt("uint", FALSE, ParseUint(n).mag))
  ELSE VIface(Scalar("float64"),
              VFloat(ParseFloat(n).neg, ParseFloat(n).ip, ParseFloat(n).fp))

\* the interface holds no pointer that the decoder would follow
PlainIface(x) == x.nil \/ x.dyn[1].t.k # "ptr" \/ x.dyn[1].x.nil

\* what the claim says of a call that decoded into an any-type target
C2_Body ==
  /\ IsN(av) /\ Parseable(av[1].N[1]) =>
       err = "nil" /\ Pointee(out) = ClaimedNumber(av[1].N[1])
  /\ IsNS(av) /\ Len(av[1].NS[1]) > 0
       /\ (\A i \in 1..Len(av[1].NS[1]) : Parseable(av[1].NS[1][i])) =>
       /\ err = "nil"
       /\ Pointee(out) =
            VIface(SliceOf(Iface),
                   VSlice([i \in 1..Len(av[1].NS[1]) |-> ClaimedNumber(av[1].NS[1][i])]))
  /\ IsL(av) /\ Len(av[1].L[1]) > 0 =>
       /\ (\A i \in 1..Len(av[1].L[1]) :
              IsN(av[1].L[1][i]) /\ Parseable(av[1].L[1][i][1].N[1])) => err = "nil"
       /\ err = "nil" =>
            \A i \in 1..Len(av[1].L[1]) :
              IsN(av[1].L[1][i]) =>
                Pointee(out).dyn[1].x.arr[i] = ClaimedNumber(av[1].L[1][i][1].N[1])

\* C2 as stated: a wire number decoded into any any-type target becomes a
\* signed integer when its text is in the signed 64-bit range, else an
\* unsigned integer when it is in the unsigned range, else a float; the
\* elements of a number set or of a list do likewise.
C2_NumberIntoAnyInterface ==
  Decoded /\ target.t.elem = Iface => C2_Body

\* C2 amended: the same, for an any-type target that does not already hold
\* a non-nil pointer; one that does is decoded through that pointer into
\* the pointer's element type.
C2_NumberIntoPlainInterface ==
  Decoded /\ target.t.elem = Iface /\ PlainIface(Pointee(target.x)) => C2_Body

\* a number set of the largest unsigned value and a fraction has been
\* decoded into an empty any-type target
C2_Witness ==
  /\ Decoded
  /\ target.t.elem = Iface
  /\ Pointee(target.x) = VNilIface
  /\ av = avNS(<<TMaxUint64, <<"1", ".", "5">>>>)
  /\ err = "nil"
  /\ Pointee(out).dyn[1].x.arr[1] = VIface(Scalar("uint"), MaxUint64Val)
  /\ Pointee(out).dyn[1].x.arr[2].dyn[1].t = Scalar("float64")

\* the text is an integer, with its sign and magnitude
IntegerText(n) ==
  LET signed == Len(n) > 0 /\ n[1] \in {"+", "-"}
      digits == IF signed THEN Tail(n) ELSE n
  IN  [ok |-> Len(digits) > 0 /\ AllDigits(digits),
       neg |-> signed /\ n[1] = "-",
       mag |-> IF Len(digits) > 0 /\ AllDigits(digits) THEN Mag(digits) ELSE Zero]

\* the integer does not fit the width of the kind
TooWide(k, n) ==
  LET i == IntegerText(n)
  IN  /\ i.ok
      /\ CASE k = "int8" -> IF i.neg THEN MagLess(Pow7, i.mag) ELSE MagLeq(Pow7, i.mag)
           [] k = "uint8" -> (i.neg /\ i.mag # Zero) \/ MagLess(MaxUint8, i.mag)
           [] k = "int" -> IF i.neg THEN MagLess(Pow63, i.mag) ELSE MagLeq(Pow63, i.mag)
           [] k = "uint" -> (i.neg /\ i.mag # Zero) \/ MagLess(MaxUint64, i.mag)
           [] OTHER -> FALSE

\* C3 as stated: decoding a wire number that does not fit the width of
\* the numeric target returns an error.
C3_OverflowIsAnError ==
  Decoded /\ IsN(av) /\ target.t.elem.k \in NumKinds
    /\ TooWide(target.t.elem.k, av[1].N[1])
    => err # "nil"

\* the overflow found: "300" into a uint8 returns nil and leaves the target
C3_SilentOverflow ==
  /\ Decoded
  /\ av = avN(T300)
  /\ target.t.elem = Scalar("uint8")
  /\ err = "nil"
  /\ out = target.x

RECURSIVE NullReset(_, _)

\* what a wire null leaves in a location: indirect walks through the
\* pointers that point to pointers and stops at the last one
NullReset(t, x) ==
  IF t.k = "ptr" /\ ~x.nil /\ t.elem.k = "ptr"
    THEN VPtr(NullReset(t.elem, x.elem[1]))
  ELSE IF t.k = "interface" /\ ~x.nil /\ x.dyn[1].t.k = "ptr"
          /\ ~x.dyn[1].x.nil /\ x.dyn[1].t.elem.k = "ptr"
    THEN VIface(x.dyn[1].t, VPtr(NullReset(x.dyn[1].t.elem, x.dyn[1].x.elem[1])))
  ELSE Zero0(t)

\* the type has no decoding hook of its own
NoHook(t) == ~(t.k = "struct" /\ t.hook)

\* a wire null was decoded into the target, or into its only field
NullIntoTarget == Decoded /\ IsNullAV(av) /\ NoHook(target.t.elem)

NullIntoField ==
  /\ Decoded
  /\ IsM(av) /\ DOMAIN av[1].M[1] = {NameF} /\ IsNullAV(av[1].M[1][NameF])
  /\ target.t.elem.k = "struct" /\ NoHook(target.t.elem)
  /\ Len(target.t.elem.fields) = 1
  /\ target.t.elem.fields[1].Name = NameF
  /\ NoHook(target.t.elem.fields[1].typ)

\* C4 as stated: a wire null resets the target, or the field, to the zero
\* value of its type; a populated pointer becomes nil.
C4_NullGivesZero ==
  /\ NullIntoTarget => err = "nil" /\ Pointee(out) = Zero0(target.t.elem)
  /\ NullIntoField =>
       /\ err = "nil"
       /\ Pointee(out).fv[1] = Zero0(target.t.elem.fields[1].typ)

\* C4 amended: a wire null resets the target, or the field, to the zero
\* value of its type, except that a non-nil pointer to a pointer is kept
\* and the null is applied to what it points to, so that the innermost
\* pointer of a chain of non-nil pointers becomes nil; a type with its own
\* decoding hook is left to the hook.
C4_NullResets ==
  /\ NullIntoTarget =>
       err = "nil" /\ Pointee(out) = NullReset(target.t.elem, Pointee(target.x))
  /\ NullIntoField =>
       /\ err = "nil"
       /\ Pointee(out).fv[1] =
            NullReset(target.t.elem.fields[1].typ, Pointee(target.x).fv[1])

\* a wire null has been decoded into a populated field of type *string
C4_Witness ==
  /\ NullIntoField
  /\ av[1].M[1][NameF] = avNULL(TRUE)
  /\ target.t.elem.fields[1].typ = PtrTo(Scalar("string"))
  /\ Pointee(target.x).fv[1] = VPtr(VStr(<<"z">>))
  /\ Pointee(out).fv[1] = VNilPtr

\* the calls that take an out argument
DecodeCalls == {"Decode", "Unmarshal", "UnmarshalMap", "UnmarshalList"}

\* the out argument is nil, not a pointer, or a nil pointer
InvalidOut == target.t.k # "ptr" \/ target.x.nil

\* C7: Decode, Unmarshal, UnmarshalMap and UnmarshalList called with an out
\* that is nil, not a pointer or a nil pointer return InvalidUnmarshalError
\* whatever the wire value, and out is as it was.
C7_InvalidOutIsRejected ==
  pc = "decoded" /\ call \in DecodeCalls /\ InvalidOut =>
    err = "InvalidUnmarshalError" /\ out = target.x

\* UnmarshalMap has been called with a nil pointer to a struct
C7_Witness ==
  /\ pc = "decoded"
  /\ call = "UnmarshalMap"
  /\ target = [t |-> PtrTo(OneField(NoTag, Scalar("int"))), x |-> VNilPtr]
  /\ av # Nil /\ DOMAIN av[1].M[1] # {}
  /\ err = "InvalidUnmarshalError"


\* the number texts every numeric parse accepts
CleanTexts == {T123, T300}

\* what is wrong with the text n for a target of type t: nothing for a
\* numeric or any-type target when the text is clean
NumberFindings(n, t) ==
  IF t.k \in NumKinds \cup {"interface"}
    THEN IF n \in CleanTexts THEN {} ELSE {"unclean"}
    ELSE {"mismatch"}

RECURSIVE Findings(_, _, _, _)

\* what the decoder meets when it decodes avp into a location of type t
\* holding x under the tag tg: "mismatch" when a populated variant meets,
\* at any depth, a kind outside the ones it accepts, "unclean" when a
\* number text may fail to parse
Findings(avp, t, x, tg) ==
  IF IsNullAV(avp) \/ ~NoHook(t) THEN {}
  ELSE IF t.k = "ptr"
    THEN Findings(avp, t.elem, IF x.nil THEN Zero0(t.elem) ELSE x.elem[1], tg)
  ELSE IF t.k = "interface" /\ ~PlainIface(x)
    THEN Findings(avp, x.dyn[1].t, x.dyn[1].x, tg)
  ELSE
    LET w     == avp[1]
        any   == t.k = "interface"
        seq   == t.k \in {"slice", "array"}
        \* the value element i of the sequence holds when it is decoded into
        old(i, n) ==
               IF t.k = "array" \/ (~x.nil /\ Len(x.arr) >= n) THEN x.arr[i]
               ELSE Zero0(t.elem)
        upto(n) == IF t.k = "array" /\ t.len < n THEN t.len ELSE n
    IN  CASE w.B # Nil /\ Len(w.B[1]) # 0 ->
               IF any \/ t = byteSliceType \/ (t.k = "array" /\ t.elem.k = "uint8")
                 THEN {} ELSE {"mismatch"}
          [] w.BOOL # Nil -> IF any \/ t.k = "bool" THEN {} ELSE {"mismatch"}
          [] w.BS # Nil /\ Len(w.BS[1]) # 0 ->
               IF any THEN {}
               ELSE IF seq
                 THEN UNION {Findings(avB(w.BS[1][i]), t.elem, old(i, Len(w.BS[1])), NoTag) :
                               i \in 1..upto(Len(w.BS[1]))}
               ELSE {"mismatch"}
          [] w.L # Nil /\ Len(w.L[1]) # 0 ->
               IF any
                 THEN UNION {Findings(w.L[1][i], Iface, VNilIface, NoTag) : i \in 1..Len(w.L[1])}
               ELSE IF seq
                 THEN UNION {Findings(w.L[1][i], t.elem, old(i, Len(w.L[1])), NoTag) :
                               i \in 1..upto(Len(w.L[1]))}
               ELSE {"mismatch"}
          [] w.M # Nil /\ DOMAIN w.M[1] # {} ->
               IF any
                 THEN UNION {Findings(w.M[1][key], Iface, VNilIface, NoTag) : key \in DOMAIN w.M[1]}
               ELSE IF t.k = "map"
                 THEN IF t.key.k # "string" THEN {"mismatch"}
                      ELSE UNION {Findings(w.M[1][key], t.elem, Zero0(t.elem), NoTag) :
                                    key \in DOMAIN w.M[1]}
               ELSE IF t.k = "struct"
                 THEN UNION {Findings(w.M[1][t.fields[i].Name], t.fields[i].typ, x.fv[i],
                                      t.fields[i].tag) :
                               i \in {j \in 1..Len(t.fields) : t.fields[j].Name \in DOMAIN w.M[1]}}
               ELSE {"mismatch"}
          [] w.N # Nil -> NumberFindings(w.N[1], t)
          [] w.NS # Nil /\ Len(w.NS[1]) # 0 ->
               IF any
                 THEN UNION {NumberFindings(w.NS[1][i], Iface) : i \in 1..Len(w.NS[1])}
               ELSE IF seq
                 THEN UNION {Findings(avN(w.NS[1][i]), t.elem, old(i, Len(w.NS[1])), NoTag) :
                               i \in 1..upto(Len(w.NS[1]))}
               ELSE {"mismatch"}
          [] w.S # Nil ->
               IF tg.AsString THEN NumberFindings(w.S[1], t)
               ELSE IF any \/ t.k = "string" THEN {} ELSE {"mismatch"}
          [] w.SS # Nil /\ Len(w.SS[1]) # 0 ->
               IF any THEN {}
               ELSE IF seq
                 THEN UNION {Findings(avS(w.SS[1][i]), t.elem, old(i, Len(w.SS[1])), NoTag) :
                               i \in 1..upto(Len(w.SS[1]))}
               ELSE {"mismatch"}
          [] OTHER -> {}

\* the call decoded a wire value with a mismatch in it and nothing else
\* that could fail
MismatchOnly ==
  /\ Decoded
  /\ Findings(av, target.t.elem, Pointee(target.x), NoTag) = {"mismatch"}

RECURSIVE HasArray(_)

\* a fixed-size array of at least one element somewhere in the type
HasArray(t) ==
  CASE t.k = "array" -> t.len > 0 \/ HasArray(t.elem)
    [] t.k \in {"ptr", "slice", "map"} -> HasArray(t.elem)
    [] t.k = "struct" -> \E i \in 1..Len(t.fields) : HasArray(t.fields[i].typ)
    [] OTHER -> FALSE

\* C8 as stated: decoding a populated wire variant into a target whose
\* kind is outside that variant's accepted kinds returns UnmarshalTypeError,
\* at the top level and at any depth.
C8_MismatchIsTypeError == MismatchOnly => err = "UnmarshalTypeError"

\* C8 holds wherever no fixed-size array is decoded into, and the only
\* other outcome is the panic of the array loop
C8_MismatchOutsideArrays ==
  MismatchOnly =>
    /\ err \in {"UnmarshalTypeError", "panic"}
    /\ ~HasArray(target.t) => err = "UnmarshalTypeError"

\* the mismatch found: a list of a boolean into a [1]string panics
C8_ArrayPanic ==
  /\ MismatchOnly
  /\ av = avL(<<avBOOL(TRUE)>>)
  /\ target.t.elem = ArrayOf(1, Scalar("string"))
  /\ err = "panic"

\* a mismatch two levels down, in the field of a struct in a list, has
\* been reported
C8_DeepMismatch ==
  /\ MismatchOnly
  /\ IsL(av)
  /\ target.t.elem.k = "slice" /\ target.t.elem.elem.k # "uint8"
  /\ Findings(av[1].L[1][1], target.t.elem.elem, Zero0(target.t.elem.elem), NoTag) = {"mismatch"}
  /\ IsM(av[1].L[1][1]) \/ IsL(av[1].L[1][1])
  /\ err = "UnmarshalTypeError"


\* Encode has returned for a struct without a hook
EncodedStruct ==
  /\ pc = "encoded" /\ call = "Encode"
  /\ in.t.k = "struct" /\ ~in.t.hook

\* the wire map of the result has an entry under the name
HasEntry(name) == av # Nil /\ av[1].M # Nil /\ name \in DOMAIN av[1].M[1]

\* the entry of the wire map under the name
Entry(name) == av[1].M[1][name]

\* the kinds the zero-value test knows
ZeroTestKinds == {"string", "slice", "array", "map", "bool", "ptr"} \cup NumKinds

\* the value is the zero or empty value of its kind
IsZeroValue(t, x) ==
  CASE t.k = "string" -> x = VStr(<<>>)
    [] t.k = "slice" -> x.len = 0
    [] t.k = "array" -> t.len = 0
    [] t.k = "map" -> DOMAIN x.m = {}
    [] t.k = "bool" -> x = VBool(FALSE)
    [] t.k = "ptr" -> x = VNilPtr
    [] t.k \in NumKinds -> x = Zero0(t)
    [] OTHER -> FALSE

\* the wire representation of the zero value of the kind
ZeroWire(e, t, tg) ==
  CASE t.k = "string" ->
         IF e.NullEmptyString THEN avNULL(TRUE) ELSE avS(<<>>)
    [] t.k = "bool" -> avBOOL(FALSE)
    [] t.k \in NumKinds -> IF tg.AsString THEN avS(<<"0">>) ELSE avN(<<"0">>)
    [] OTHER -> avNULL(TRUE)

\* the fields of the struct that hold a zero value of a kind the test knows
ZeroFieldsOf(t, x) ==
  {i \in 1..Len(t.fields) :
     /\ t.fields[i].typ.k \in ZeroTestKinds
     /\ IsZeroValue(t.fields[i].typ, x.fv[i])}

\* C5: when a struct is encoded, a field tagged omitempty that holds the
\* zero or empty value of its kind has no entry in the wire map, and such
\* a field without the tag has an entry that holds the wire form of that
\* zero value; a struct of such fields only is encoded without error.
C5_OmitEmptyFields ==
  EncodedStruct =>
    /\ ZeroFieldsOf(in.t, in.x) = 1..Len(in.t.fields)
         /\ (\A i \in 1..Len(in.t.fields) : Len(in.t.fields[i].Name) > 0)
         => err = "nil"
    /\ err = "nil" =>
         \A i \in ZeroFieldsOf(in.t, in.x) :
           IF in.t.fields[i].tag.OmitEmpty
             THEN ~HasEntry(in.t.fields[i].Name)
             ELSE /\ HasEntry(in.t.fields[i].Name)
                  /\ Entry(in.t.fields[i].Name) =
                       ZeroWire(enc, in.t.fields[i].typ, in.t.fields[i].tag)

\* the zero testOmitEmptyStruct has been encoded: only Value3 has an entry
C5_Witness ==
  /\ EncodedStruct
  /\ in.t = testOmitEmptyStruct
  /\ in.x = Zero0(testOmitEmptyStruct)
  /\ err = "nil"
  /\ DOMAIN av[1].M[1] = {<<"V", "a", "l", "u", "e", "3">>}
  /\ Entry(<<"V", "a", "l", "u", "e", "3">>) = avN(<<"0">>)

\* the wire set the option of the tag names
TagSetKind(tg) ==
  CASE tg.AsBinSet -> "BS"
    [] tg.AsNumSet -> "NS"
    [] tg.AsStrSet -> "SS"
    [] OTHER -> "L"

\* Encode has returned for a struct whose only field is a non-empty
\* sequence under a set option
EncodedSet ==
  /\ EncodedStruct
  /\ Len(in.t.fields) = 1 /\ in.t.fields[1].Name = NameF
  /\ in.t.fields[1].typ.k \in {"slice", "array"}
  /\ TagSetKind(in.t.fields[1].tag) # "L"
  /\ SeqLen(RV(in.t.fields[1].typ, in.x.fv[1], FALSE)) > 0

\* the payload of the sub-type of the set in the encoding of an element
Payload(kind, av1) ==
  CASE kind = "BS" -> av1.B[1]
    [] kind = "NS" -> av1.N[1]
    [] OTHER -> av1.S[1]

\* the wire set of the kind with the items
WireSet(kind, items) ==
  CASE kind = "BS" -> avBS(items)
    [] kind = "NS" -> avNS(items)
    [] OTHER -> avSS(items)

\* the field F is encoded as the set of the kind, element by element in
\* order, or the encoding fails when an element is not of the sub-type
SetOrError(kind) ==
  LET t    == in.t.fields[1].typ
      x    == in.x.fv[1]
      n    == SeqLen(RV(t, x, FALSE))
      encs == [i \in 1..n |-> encode(enc, RV(t.elem, x.arr[i], TRUE), NoTag)]
  IN  IF \A i \in 1..n : encs[i].err = "nil" /\ FitsSet(kind, encs[i].av)
        THEN /\ err = "nil"
             /\ HasEntry(NameF)
             /\ Entry(NameF) = WireSet(kind, [i \in 1..n |-> Payload(kind, encs[i].av)])
        ELSE err = "InvalidMarshalError"

\* C6 as stated: a non-empty sequence under a set option is encoded as a
\* wire set of that kind holding the encodings of its elements in order,
\* or the encoding fails with InvalidMarshalError when an element does not
\* encode to the sub-type of the set.
C6_SetOfTheOption == EncodedSet => SetOrError(TagSetKind(in.t.fields[1].tag))

\* the element type has a wire form
RECURSIVE HasWireForm(_)
HasWireForm(t) ==
  CASE t.k = "complex128" -> FALSE
    [] t.k \in {"ptr", "slice", "array"} -> HasWireForm(t.elem)
    [] OTHER -> TRUE

\* C6 amended: the same for a sequence that is not a []byte, whose tag
\* has no omitemptyelem and whose element type has a wire form, where a
\* [][]byte is a binary set whatever the option; a []byte is encoded as
\* one binary value, omitemptyelem drops the empty elements, and elements
\* without a wire form are dropped.
C6_SetFidelity ==
  EncodedSet
    /\ in.t.fields[1].typ # byteSliceType
    /\ ~in.t.fields[1].tag.OmitEmptyElem
    /\ HasWireForm(in.t.fields[1].typ.elem)
    => SetOrError(IF in.t.fields[1].typ = byteSliceSlicetype THEN "BS"
                  ELSE TagSetKind(in.t.fields[1].tag))

\* a []string of two elements under stringset has been encoded
C6_Witness ==
  /\ EncodedSet
  /\ in.t.fields[1].typ = SliceOf(Scalar("string"))
  /\ in.t.fields[1].tag = tag(FALSE, FALSE, FALSE, FALSE, FALSE, TRUE)
  /\ in.x.fv[1] = VSlice(<<VStr(<<"b">>), VStr(<<"a">>)>>)
  /\ err = "nil"
  /\ Entry(NameF) = avSS(<<<<"b">>, <<"a">>>>)

\* a numeric field under the string option
StringOptionField(t) ==
  /\ t.k = "struct" /\ ~t.hook /\ Len(t.fields) = 1
  /\ t.fields[1].Name = NameF
  /\ t.fields[1].tag.AsString
  /\ t.fields[1].typ.k \in NumKinds

\* C9: a numeric field under the string option is encoded as a wire
\* string, the number slot unset, with the text it has as a wire number;
\* a wire string decoded into a field under the string option gives what
\* the wire number of that text gives; and the field round-trips.
C9_StringOption ==
  /\ pc = "encoded" /\ call = "Encode" /\ StringOptionField(in.t)
       /\ ~(in.t.fields[1].tag.OmitEmpty /\ IsZeroValue(in.t.fields[1].typ, in.x.fv[1])) =>
       /\ err = "nil"
       /\ HasEntry(NameF)
       /\ Entry(NameF)[1].N = Nil
       /\ Entry(NameF)[1].S =
            encode(enc, RV(in.t.fields[1].typ, in.x.fv[1], FALSE), NoTag).av.N
       /\ Entry(NameF)[1].S # Nil
  /\ Decoded /\ call \in DecodeCalls /\ IsM(av) /\ DOMAIN av[1].M[1] = {NameF}
       /\ av[1].M[1][NameF] # Nil /\ av[1].M[1][NameF][1].S # Nil
       /\ av[1].M[1][NameF][1].NULL = Nil
       /\ target.t.elem.k = "struct" /\ Len(target.t.elem.fields) = 1
       /\ target.t.elem.fields[1].Name = NameF
       /\ target.t.elem.fields[1].tag.AsString =>
       LET r == Decode(NewDecoder, avM([k \in {NameF} |-> avN(av[1].M[1][NameF][1].S[1])]),
                       target.t, target.x, NameF)
       IN  err = r.err /\ out = r.x
  /\ TrippedBack /\ StringOptionField(in.t) =>
       err = "nil" /\ DeepEqual(Pointee(out), in.x)

\* an int8 field of -128 under the string option has made the round trip
C9_Witness ==
  /\ TrippedBack
  /\ in.t = OneField(AsStringTag, Scalar("int8"))
  /\ in.x = VStruct(<<VInt("int8", TRUE, Pow7)>>)
  /\ av = avM([k \in {NameF} |-> avS(<<"-", "1", "2", "8">>)])
  /\ err = "nil"
  /\ Pointee(out) = in.x

\* a wire string has been decoded into a numeric field under the option
C9_DecodeWitness ==
  /\ Decoded /\ call \in DecodeCalls
  /\ av = avM([k \in {NameF} |-> avS(T123)])
  /\ target.t.elem = OneField(AsStringTag, Scalar("int"))
  /\ err = "nil"
  /\ Pointee(out) = VStruct(<<VInt("int", FALSE, <<1, 2, 3>>)>>)

\* Encode has returned without error under NullEmptyString
EncodedNES == pc = "encoded" /\ call = "Encode" /\ enc.NullEmptyString /\ err = "nil"

\* C10 as stated: with NullEmptyString an empty string is encoded as wire
\* NULL when it is the top-level value or a struct field, and an empty
\* string that is an element of a list or a value of a map is encoded as
\* an empty wire string.
C10_NullOnlyOutsideContainers ==
  /\ EncodedNES /\ in.t = Scalar("string") /\ in.x = VStr(<<>>) => av = avNULL(TRUE)
  /\ EncodedNES /\ in.t = OneField(NoTag, Scalar("string")) /\ in.x.fv[1] = VStr(<<>>) =>
       Entry(NameF) = avNULL(TRUE)
  /\ EncodedNES /\ in.t = SliceOf(Scalar("string")) =>
       \A i \in 1..in.x.len : in.x.arr[i] = VStr(<<>>) => av[1].L[1][i] = avS(<<>>)
  /\ EncodedNES /\ in.t = MapOf(Scalar("string"), Scalar("string")) =>
       \A key \in DOMAIN in.x.m : in.x.m[key] = VStr(<<>>) => Entry(key.s) = avS(<<>>)

\* the empty string found as wire NULL in a list
C10_NullInList ==
  /\ EncodedNES
  /\ in.t = SliceOf(Scalar("string"))
  /\ in.x = VSlice(<<VStr(<<>>)>>)
  /\ av = avL(<<avNULL(TRUE)>>)

\* the kinds without a wire form: func stands for the function, channel
\* and unsafe pointer kinds, complex128 for the scalars encodeNumber rejects
UnsupportedKinds == SkippedKinds \cup {"complex128"}

\* the fields of the struct type that are of an unsupported kind
UnsupportedFieldsOf(t) ==
  {i \in 1..Len(t.fields) : t.fields[i].typ.k \in UnsupportedKinds}

\* Encode has returned for a struct with a field of an unsupported kind
\* whose other fields encode without error
EncodedUnsupported ==
  /\ EncodedStruct
  /\ UnsupportedFieldsOf(in.t) # {}
  /\ \A i \in 1..Len(in.t.fields) :
        /\ Len(in.t.fields[i].Name) > 0
        /\ i \notin UnsupportedFieldsOf(in.t) =>
             encode(enc, RV(in.t.fields[i].typ, in.x.fv[i], FALSE),
                    in.t.fields[i].tag).err = "nil"

\* field i of the encoded struct is in the wire map as encoding the field
\* alone gives it, and is left out where omitempty leaves it out
EncodedNormally(i) ==
  LET f == in.t.fields[i]
      r == encode(enc, RV(f.typ, in.x.fv[i], FALSE), f.tag)
  IN  IF f.tag.OmitEmpty /\ r.av.NULL # Nil
        THEN ~HasEntry(f.Name)
        ELSE HasEntry(f.Name) /\ Entry(f.Name) = Some(r.av)

\* C11: encoding a struct that has a field of an unsupported kind (a
\* function, channel or unsafe pointer, or a scalar without a wire form)
\* returns no error, the wire map has no entry for that field, and the
\* other fields are encoded as they are without it.
C11_UnsupportedFieldLeftOut ==
  EncodedUnsupported =>
    /\ err = "nil"
    /\ \A i \in 1..Len(in.t.fields) :
         IF i \in UnsupportedFieldsOf(in.t)
           THEN ~HasEntry(in.t.fields[i].Name)
           ELSE EncodedNormally(i)

\* struct{F func(); G bool} has been encoded: G has its entry, and F has
\* an entry too, an AttributeValue with no variant set
C11_EmptyEntry ==
  /\ EncodedUnsupported
  /\ in.t.fields[1].typ.k = "func" /\ Len(in.t.fields) = 2
  /\ err = "nil"
  /\ HasEntry(NameF) /\ Entry(NameF) = Some(EmptyAV)
  /\ EncodedNormally(2)

\* the part of C11 the code keeps: a scalar without a wire form is left
\* out of the wire map and the other fields are encoded normally
C11_ScalarWithoutWireForm ==
  EncodedUnsupported =>
    /\ err = "nil"
    /\ \A i \in 1..Len(in.t.fields) :
         IF in.t.fields[i].typ.k = "complex128"
           THEN ~HasEntry(in.t.fields[i].Name)
           ELSE i \notin UnsupportedFieldsOf(in.t) => EncodedNormally(i)

\* the elements of a wire list or set, <<>> for any other wire value
WireItems(avp) ==
  IF avp = Nil \/ avp[1].NULL # Nil THEN <<>>
  ELSE IF Len(avp[1].B) # 0 \/ avp[1].BOOL # Nil THEN <<>>
  ELSE IF avp[1].BS # Nil /\ Len(avp[1].BS[1]) # 0 THEN avp[1].BS[1]
  ELSE IF avp[1].L # Nil /\ Len(avp[1].L[1]) # 0 THEN avp[1].L[1]
  ELSE IF avp[1].M # Nil /\ DOMAIN avp[1].M[1] # {} THEN <<>>
  ELSE IF avp[1].N # Nil THEN <<>>
  ELSE IF avp[1].NS # Nil /\ Len(avp[1].NS[1]) # 0 THEN avp[1].NS[1]
  ELSE IF avp[1].S # Nil THEN <<>>
  ELSE IF avp[1].SS # Nil /\ Len(avp[1].SS[1]) # 0 THEN avp[1].SS[1]
  ELSE <<>>

\* which of the list and the sets WireItems has taken the elements from
WireItemsKind(avp) ==
  IF avp[1].BS # Nil /\ Len(avp[1].BS[1]) # 0 THEN "BS"
  ELSE IF avp[1].L # Nil /\ Len(avp[1].L[1]) # 0 THEN "L"
  ELSE IF avp[1].NS # Nil /\ Len(avp[1].NS[1]) # 0 THEN "NS"
  ELSE "SS"

\* element i of the wire list or set decoded on its own into position i
\* of the array the target holds
ArrayElem(i) ==
  LET items == WireItems(av)
      kind  == WireItemsKind(av)
      elem  == RV(target.t.elem.elem, Pointee(target.x).arr[i], TRUE)
  IN  CASE kind = "BS" -> decodeBinary(items[i], elem)
        [] kind = "NS" -> decodeNumber(items[i], elem)
        [] kind = "SS" -> decodeString(items[i], elem, NoTag)
        [] OTHER -> decode(NewDecoder, items[i], elem, NoTag, NameF)

Min(a, b) == IF a < b THEN a ELSE b

\* the positions of the array that the wire has an element for
Filled == 1..Min(Len(WireItems(av)), target.t.elem.len)

\* Decode has returned for a wire list or set and a pointer to a
\* fixed-size array whose elements take the wire elements without error
ArrayDecoded ==
  /\ Decoded
  /\ target.t.elem.k = "array"
  /\ Len(WireItems(av)) > 0
  /\ \A i \in Filled : ArrayElem(i).err = "nil"

\* C12: decoding a wire list or set of n elements into an array of
\* capacity k returns without an error or a panic; the first min(n, k)
\* positions hold the decoded wire elements in order, the array keeps its
\* k positions, and the wire elements beyond k are dropped.
C12_ArrayDecodeCompletes ==
  ArrayDecoded =>
    /\ err = "nil"
    /\ Len(Pointee(out).arr) = target.t.elem.len
    /\ \A i \in Filled : Pointee(out).arr[i] = ArrayElem(i).x

\* a list of one number decoded into a [1]int: the loop panics in SetLen
C12_ArrayPanic ==
  /\ ArrayDecoded
  /\ av = avL(<<avN(T123)>>)
  /\ target.t.elem = ArrayOf(1, Scalar("int"))
  /\ err = "panic"

\* what the code does for arrays: it returns normally only when no
\* position is to be filled, and panics as soon as one is
C12_PanicUnlessNothingToFill ==
  ArrayDecoded =>
    IF Filled = {} THEN err = "nil" /\ out = target.x ELSE err = "panic"

RECURSIVE HasHook(_)

\* a type with the Unmarshaler hook somewhere in the type
HasHook(t) ==
  CASE t.k = "struct" ->
         t.hook \/ \E i \in 1..Len(t.fields) : HasHook(t.fields[i].typ)
    [] t.k \in {"ptr", "slice", "array", "map"} -> HasHook(t.elem)
    [] OTHER -> FALSE

\* the wire value is a map with at least one entry
IsWireMap(avp) ==
  /\ ~IsNullAV(avp) /\ WireItems(avp) = <<>>
  /\ Len(avp[1].B) = 0 /\ avp[1].BOOL = Nil
  /\ avp[1].M # Nil /\ DOMAIN avp[1].M[1] # {}

RECURSIVE HookedOnce(_, _, _, _)

\* every location of the hooked type in the value x of type t, decoded
\* from the wire value avp, has had its hook called exactly once; the
\* targets start with no call recorded.  A wire null for a pointer may set
\* the pointer to nil instead (the reset of a target by a null).
\* asClaimed: the hook of every element of a set is called; otherwise what
\* the loops of the set decoders do instead.
HookedOnce(avp, t, x, asClaimed) ==
  CASE t.k = "struct" /\ t.hook -> x.calls = <<avp>>
    [] t.k = "ptr" ->
         IF x.nil THEN IsNullAV(avp)
         ELSE HookedOnce(avp, t.elem, x.elem[1], asClaimed)
    [] t.k = "slice" /\ WireItems(avp) # <<>> ->
         IF WireItemsKind(avp) = "L"
           THEN /\ x.len = Len(WireItems(avp))
                /\ \A i \in 1..x.len :
                     HookedOnce(WireItems(avp)[i], t.elem, x.arr[i], asClaimed)
         ELSE IF ~HasHook(t.elem) THEN TRUE
         ELSE IF asClaimed
           THEN /\ x.len = Len(WireItems(avp))
                /\ \A i \in 1..x.len : Len(x.arr[i].calls) = 1
           ELSE x.len = 1 /\ x.arr[1].calls = <<avp>>
    [] t.k = "map" /\ IsWireMap(avp) ->
         \A k \in DOMAIN avp[1].M[1] :
           /\ VStr(k) \in DOMAIN x.m
           /\ HookedOnce(avp[1].M[1][k], t.elem, x.m[VStr(k)], asClaimed)
    [] t.k = "struct" /\ ~t.hook /\ IsWireMap(avp) ->
         \A i \in 1..Len(t.fields) :
           t.fields[i].Name \in DOMAIN avp[1].M[1] =>
             HookedOnce(avp[1].M[1][t.fields[i].Name], t.fields[i].typ, x.fv[i],
                        asClaimed)
    [] OTHER -> TRUE

\* Decode has returned without error for a target with a hooked type in it
DecodedHooked == Decoded /\ err = "nil" /\ HasHook(target.t)

\* C13: at every depth of a decode (the target itself, the fields of a
\* struct, the values of a map, the elements of a slice decoded from a
\* list or a set) a location of a type with the Unmarshaler hook has its
\* hook called exactly once, with the wire value of that location, and the
\* other elements of the container are decoded as well.
C13_HookAtEveryDepth ==
  DecodedHooked => HookedOnce(av, target.t, out, TRUE)

\* a string set of two elements decoded into a slice of the hooked type:
\* the hook of the first element has been given the whole set and the
\* slice ends after it
C13_SetGivenToFirstElement ==
  /\ DecodedHooked
  /\ target.t.elem = SliceOf(HookedStruct)
  /\ av = avSS(<<<<"a">>, T123>>)
  /\ Pointee(out).len = 1
  /\ Pointee(out).arr[1].calls = <<av>>

\* what the code keeps of C13: the hook is called once with the wire value
\* of its location for the target, the fields, the map values and the list
\* elements; a set goes whole to the hook of the first element and the
\* other elements are not decoded
C13_HookOutsideSets ==
  DecodedHooked => HookedOnce(av, target.t, out, FALSE)

\* the variant fields of an AttributeValue
Variants == {"B", "BOOL", "BS", "L", "M", "N", "NS", "S", "SS", "NULL"}

\* the variant fields of the node that are populated
PopulatedVariants(a) == {f \in Variants : a[f] # Nil}

RECURSIVE AtMostOneVariant(_)

\* every node of the tree has at most one variant field populated
AtMostOneVariant(avp) ==
  avp # Nil =>
    /\ Cardinality(PopulatedVariants(avp[1])) <= 1
    /\ avp[1].L # Nil =>
         \A i \in 1..Len(avp[1].L[1]) : AtMostOneVariant(avp[1].L[1][i])
    /\ avp[1].M # Nil =>
         \A k \in DOMAIN avp[1].M[1] : AtMostOneVariant(avp[1].M[1][k])

\* Encode has returned a tree for an input without a Marshaler type in it
EncodedTree ==
  /\ pc = "encoded" /\ call = "Encode" /\ err = "nil"
  /\ in.t.k # "invalid" => ~HasHook(in.t)

\* C14: every node of the tree Encode returns for an input without custom
\* Marshaler types has at most one of the variant fields B, BOOL, BS, L, M,
\* N, NS, S, SS, NULL populated; this includes the nodes written under the
\* string option and the nulls that stand for an empty container.
C14_AtMostOneVariant == EncodedTree => AtMostOneVariant(av)

\* a struct with an int field under the string option has been encoded:
\* the entry of the field has S and nothing else
C14_Witness ==
  /\ EncodedTree
  /\ in.t = OneField(AsStringTag, Scalar("int"))
  /\ in.x = VStruct(<<VInt("int", FALSE, <<1, 2, 3>>)>>)
  /\ PopulatedVariants(av[1]) = {"M"}
  /\ PopulatedVariants(Entry(NameF)[1]) = {"S"}
  /\ Entry(NameF) = avS(T123)

\* the attribute value is there and has no variant populated: every field
\* is unset, or is an empty B, BS, L, M, NS or SS
NoVariant(avp) ==
  /\ avp # Nil
  /\ avp[1].NULL = Nil /\ avp[1].BOOL = Nil /\ avp[1].N = Nil /\ avp[1].S = Nil
  /\ avp[1].B # Nil => Len(avp[1].B[1]) = 0
  /\ avp[1].BS # Nil => Len(avp[1].BS[1]) = 0
  /\ avp[1].NS # Nil => Len(avp[1].NS[1]) = 0
  /\ avp[1].SS # Nil => Len(avp[1].SS[1]) = 0
  /\ avp[1].L # Nil => Len(avp[1].L[1]) = 0
  /\ avp[1].M # Nil => DOMAIN avp[1].M[1] = {}

RECURSIVE Allocated(_, _)

\* the value x of type t with the content it has and every nil pointer on
\* the way to that content pointing at a new zero value
Allocated(t, x) ==
  CASE t.k = "ptr" ->
         VPtr(Allocated(t.elem, IF x.nil THEN Zero0(t.elem) ELSE x.elem[1]))
    [] t.k = "interface" /\ ~x.nil /\ x.dyn[1].t.k = "ptr" /\ ~x.dyn[1].x.nil ->
         VIface(x.dyn[1].t, Allocated(x.dyn[1].t, x.dyn[1].x))
    [] OTHER -> x

\* Decode has returned for an attribute value without a populated variant
\* and a target without a hooked type
DecodedUnset == Decoded /\ NoVariant(av) /\ ~HasHook(target.t)

\* C15 as stated: decoding an attribute value in which no variant is
\* populated has the effect on the target that decoding a wire null has;
\* a populated target is reset to its zero value.
C15_UnsetIsNull ==
  DecodedUnset =>
    /\ err = Decode(NewDecoder, avNULL(TRUE), target.t, target.x, NameF).err
    /\ out = Decode(NewDecoder, avNULL(TRUE), target.t, target.x, NameF).x

\* C15 as amended: decoding an attribute value in which no variant is
\* populated returns no error and leaves the target with the content it
\* had; the nil pointers that lead to the target are set to point at zero
\* values.
C15_UnsetLeavesContent ==
  DecodedUnset => err = "nil" /\ out = Allocated(target.t, target.x)

\* an AttributeValue with no field set has been decoded into an int that
\* held 7, and the int still holds 7
C15_Witness ==
  /\ DecodedUnset
  /\ av = Some(EmptyAV)
  /\ target.t.elem = Scalar("int")
  /\ Pointee(target.x) = VInt("int", FALSE, <<7>>)
  /\ err = "nil"
  /\ Pointee(out) = VInt("int", FALSE, <<7>>)

\* Encode has returned without error for a struct whose field F carries
\* omitemptyelem (and not omitempty) and holds a sequence or a map of
\* strings, booleans or numbers; a []byte is a wire binary, not a list
EncodedOmitEmptyElem ==
  /\ EncodedStruct /\ err = "nil"
  /\ Len(in.t.fields) = 1 /\ in.t.fields[1].Name = NameF
  /\ in.t.fields[1].tag.OmitEmptyElem /\ ~in.t.fields[1].tag.OmitEmpty
  /\ in.t.fields[1].typ.k \in {"slice", "array", "map"}
  /\ in.t.fields[1].typ # byteSliceType
  /\ in.t.fields[1].typ.elem.k \in {"string", "bool"} \cup NumKinds

\* the elements of the sequence in the field that are not the zero value
\* of their kind, in input order
NonZeroElems ==
  LET t == in.t.fields[1].typ
      xs == IF t.k = "slice" THEN SliceElems(in.x.fv[1]) ELSE in.x.fv[1].arr
      nonZero(x) == ~IsZeroValue(t.elem, x)
  IN  SelectSeq(xs, nonZero)

\* the keys of the map in the field whose value is not the zero value
NonZeroKeys ==
  {k \in DOMAIN in.x.fv[1].m : ~IsZeroValue(in.t.fields[1].typ.elem, in.x.fv[1].m[k])}

\* the wire form of a string, boolean or number on its own
ScalarWire(t, x) == encodeScalar(enc, RV(t, x, FALSE), NoTag).av

\* the entry of the field holds the non-zero elements of the sequence, in
\* input order, as the list or set the tag asks for
ElemsLeftOut ==
  LET t    == in.t.fields[1].typ
      kind == TagSetKind(in.t.fields[1].tag)
      kept == NonZeroElems
      wire == [i \in 1..Len(kept) |-> ScalarWire(t.elem, kept[i])]
  IN  /\ HasEntry(NameF)
      /\ IF kept = <<>> THEN Entry(NameF) = avNULL(TRUE)
         ELSE CASE kind = "NS" ->
                     Entry(NameF) = avNS([i \in 1..Len(kept) |-> wire[i].N[1]])
                [] kind = "SS" ->
                     Entry(NameF) = avSS([i \in 1..Len(kept) |-> wire[i].S[1]])
                [] OTHER ->
                     Entry(NameF) = avL([i \in 1..Len(kept) |-> Some(wire[i])])

\* the entry of the field holds the non-zero values of the map under
\* their keys
ValuesLeftOut ==
  LET t == in.t.fields[1].typ
  IN  /\ HasEntry(NameF)
      /\ IF NonZeroKeys = {} THEN Entry(NameF) = avNULL(TRUE)
         ELSE /\ Entry(NameF)[1].M # Nil
              /\ DOMAIN Entry(NameF)[1].M[1] = {KeyName(t.key, k) : k \in NonZeroKeys}
              /\ \A k \in NonZeroKeys :
                   Entry(NameF)[1].M[1][KeyName(t.key, k)] =
                     Some(ScalarWire(t.elem, in.x.fv[1].m[k]))

\* C16: under omitemptyelem every element of a list or set and every value
\* of a map that is the zero value of its kind (empty string, false,
\* numeric zero) is left out of the encoded container, and the non-zero
\* ones are kept, in input order for lists and sets.
C16_ZeroElementsLeftOut ==
  EncodedOmitEmptyElem =>
    IF in.t.fields[1].typ.k = "map" THEN ValuesLeftOut ELSE ElemsLeftOut

\* map[string]int{"a": 0} under omitemptyelem has been encoded: the zero
\* is in the wire map
C16_ZeroKeptInMap ==
  /\ EncodedOmitEmptyElem
  /\ in.t.fields[1].typ = MapOf(Scalar("string"), Scalar("int"))
  /\ in.x.fv[1] = VMap([k \in {VStr(<<"a">>)} |-> VInt("int", FALSE, Zero)])
  /\ Entry(NameF) = avM([k \in {<<"a">>} |-> avN(<<"0">>)])

\* what the code keeps of C16: the zero elements of lists and sets are
\* left out and the others are kept in order
C16_ListsAndSets ==
  EncodedOmitEmptyElem /\ in.t.fields[1].typ.k # "map" => ElemsLeftOut

RECURSIVE NoEmptyContainer(_)

\* every populated B, BS, NS, SS, L and M of the tree has an element
NoEmptyContainer(avp) ==
  avp # Nil =>
    /\ avp[1].B # Nil => Len(avp[1].B[1]) > 0
    /\ avp[1].BS # Nil => Len(avp[1].BS[1]) > 0
    /\ avp[1].NS # Nil => Len(avp[1].NS[1]) > 0
    /\ avp[1].SS # Nil => Len(avp[1].SS[1]) > 0
    /\ avp[1].L # Nil =>
         /\ Len(avp[1].L[1]) > 0
         /\ \A i \in 1..Len(avp[1].L[1]) : NoEmptyContainer(avp[1].L[1][i])
    /\ avp[1].M # Nil =>
         /\ DOMAIN avp[1].M[1] # {}
         /\ \A k \in DOMAIN avp[1].M[1] : NoEmptyContainer(avp[1].M[1][k])

\* C17: no tree that Encode returns has an empty container: a populated
\* B, BS, NS, SS, L or M has at least one element, at every node.  A struct
\* or map without resulting entries, an empty byte slice and a sequence
\* without resulting elements are encoded as NULL.
C17_NoEmptyContainer ==
  /\ EncodedTree => NoEmptyContainer(av)
  /\ EncodedTree /\ in.t.k \in {"slice", "array", "map", "struct"} =>
       \/ av[1].NULL = Some(TRUE)
       \/ /\ av[1].NULL = Nil
          /\ \E f \in {"B", "BS", "NS", "SS", "L", "M"} : av[1][f] # Nil

\* an empty, non-nil []byte has been encoded as NULL
C17_Witness ==
  /\ EncodedTree
  /\ in.t = byteSliceType
  /\ in.x = VSlice(<<>>)
  /\ av = avNULL(TRUE)

====
